---- MODULE Spec2Model ----
(***************************************************************************)
(* Resilient data-access layer of the property-management backend:         *)
(*   - SupabaseConnectionPool (pool, recycling, health loop, cleaner,      *)
(*     circuit breaker)            app/core/supabase_connection_pool.py    *)
(*   - GracefulDegradationClient / CircuitBreakerFallback                  *)
(*                                 app/core/circuit_breaker_fallback.py    *)
(*   - ConnectionTracker, AsyncTable.execute, AsyncRPC.execute             *)
(*                                 app/core/async_supabase.py              *)
(*                                                                         *)
(* Time.  The code stores time.time() stamps and only ever reads the       *)
(* difference between the current time and a stamp.  The model stores that *)
(* difference (an age) and lets Tick advance every age; an age saturates   *)
(* one step past the largest value it is compared with, which keeps every  *)
(* comparison of the code exact.                                           *)
(*                                                                         *)
(* Callers.  A get_client() scope is a coroutine frame without identity;   *)
(* the model counts the frames at each suspension point of get_client.     *)
(*                                                                         *)
(* Not modelled: the write-only statistics total_connections,              *)
(* successful_operations, failed_operations, average_response_time and     *)
(* last_health_check of ConnectionMetrics (no decision of the code reads   *)
(* them); ConnectionTracker.last_failure and should_throttle, which only   *)
(* delay the start of an execute() call.                                   *)
(***************************************************************************)
EXTENDS Integers, Sequences, FiniteSets, TLC

(***************************************************************************)
(* Configuration of the pool (constructor arguments / settings), in the    *)
(* model's units: handles, and ticks for the recycle interval.             *)
(***************************************************************************)
\* max_connections (settings.supabase_max_concurrent_connections)
MaxConnections == 1
\* recycle_interval (settings.supabase_pool_recycle_interval), in ticks
RecycleInterval == 1

(***************************************************************************)
(* Bounds of the model.                                                    *)
(***************************************************************************)
\* get_client() scopes that may be open at the same time
NumCallers == 2
\* _circuit_breaker_threshold (10 in the source), scaled
CircuitBreakerThreshold == 2
\* _circuit_breaker_timeout (60 s in the source), in ticks
CircuitBreakerTimeout == 1

(***************************************************************************)
(* Program constants.                                                      *)
(***************************************************************************)
\* initialize(): range(min(10, self.max_connections))
InitialBatch == 10
\* _check_pool_health: max(5, self.max_connections // 4)
MinPoolFloor == 5
FloorDivisor == 4

VARIABLES
  \* ---- SupabaseConnectionPool
  initialized,              \* _initialized
  pool,                     \* _pool: asyncio.Queue(maxsize=max_connections), FIFO
  clients,                  \* _clients
  client_age,               \* now - _client_created_times[c], for each key c
  active_clients,           \* _active_clients
  active_connections,       \* metrics.active_connections
  total_connections,        \* metrics.total_connections
  failed_operations_count,  \* _failed_operations_count
  circuit_breaker_open,     \* _circuit_breaker_open
  breaker_age,              \* now - _circuit_breaker_opened_at
  \* ---- coroutine frames of get_client and of the health loop
  waiting,                  \* frames suspended in wait_for(_pool.get())
  putting,                  \* handles whose frame is suspended in _pool.put()
  health_put,               \* handle the health check is suspended putting (0: none)
  health_left,              \* iterations the suspended health check still has to run
  \* ---- history variables (read by the properties only)
  g_streak,                 \* failed completions since the last success / breaker reset
  g_since_open,             \* time since the breaker last went from closed to open
  g_tripped,                \* a streak opened the breaker and no get_client() came since
  background_tasks,         \* background loops started by initialize()
  initialize_calls,         \* history: initialize() calls made, counted up to 2
  \* ---- CircuitBreakerFallback and the degraded client's query under construction
  cache,                    \* fallback_service.cache: key -> [data, age of timestamp]
  d_kind,                   \* "table": GracefulDegradationTable, "rpc": ...RPC
  table_name,               \* table_name / function_name of the query
  query_params,             \* query_params / params of the query
  d_calls,                  \* methods called on the query so far (history)
  d_status,                 \* "idle", "building", "returned" or "raised"
  d_response,               \* FallbackResponse.data of the returned response
  \* ---- ConnectionTracker and the execute() calls in progress
  failed_connections,       \* connection_tracker.failed_connections
  retry_counts,             \* connection_tracker.retry_counts
  exec_pc,                  \* position of each execute() call
  exec_outcome,             \* what each execute() call gave its caller
  exec_attempts,            \* backend attempts each execute() call has made
  backend_script,           \* attempts the backend fails before it succeeds, per call
  tracker_raised,           \* exception of the last direct call on the tracker
  tracker_returned,         \* the last should_retry / get_retry_delay call and its value
  \* ---- direct calls on the fallback service
  fallback_returned,        \* the last cache_response / get_cached_response call and its value
  \* ---- TenantCache
  tenant_cache,             \* _cache: key -> [value, left: expires_at - now]
  tenant_returned,          \* the last get call and its value
  g_tenant_set,             \* history: the latest set of each key not deleted since
  \* ---- RedisCacheService / GuestPortalCache
  redis,                    \* the keys of the Redis server: key -> [value, tenant_id
                            \* (history: the tenant the key was created for)]
  redis_returned,           \* the last invalidate_tenant_cache call and its value
  \* ---- company settings endpoint
  company_settings_cache,   \* cache_key -> [data, age: now - timestamp]
  settings_returned,        \* the last get_company_settings call and its response
  company_settings_db,      \* table company_settings: tenant_id -> version of the
                            \* tenant's row, 0 while the tenant has no row
  \* ---- AsyncProcessor
  tasks,                    \* tasks: task_id -> [user_id, status, completed_age:
                            \* now - completed_at, -1 while completed_at is None]
  active_tasks,             \* active_tasks: task_id -> the asyncio.Task, as
                            \* [pc: position of _execute_task, must_cancel]
  user_task_limits,         \* user_task_limits
  task_returned,            \* the last submit_task / cancel_task call and its outcome
  g_cancelled,              \* history: ids for which cancel_task returned True
  g_ended_age,              \* history: task id -> time since its asyncio task ended
  \* ---- per-tenant user-list cache (users_lightning), one tenant
  users_db,                 \* version of the tenant's user rows in the database
  users_cache,              \* Redis key users:lightning:{tenant_id}: <<>> or
                            \* <<version of the user rows the entry was built from>>
  list_pc,                  \* position of each list_users_lightning request and of
                            \* the refresh_cache task it schedules
  list_data,                \* users_data of each request / refresh task
  write_pc,                 \* position of the user write (create_user)
  users_returned,           \* the last list_users_lightning response
  g_write_done,             \* history: version written by the latest completed write
  \* ---- ConnectionTracker.cleanup_old_operations
  operation_timeouts,       \* operation_timeouts: operation id -> age of its timestamp
  g_tracked_age,            \* history: operation id in retry_counts -> time since its
                            \* retry state was last written
  \* ---- cache_response: one decorated function, calls one after the other
  response_cache,           \* the Redis keys behind cache_instance.cache: key ->
                            \* [value: the JSON text, age: time since setex]
  w_pc,                     \* position of the wrapper call in progress
  w_key,                    \* cache_key of the call
  func_calls,               \* invocations of func by the latest wrapper call
  w_result,                 \* result, between func and cache.set
  w_returned,               \* how the latest wrapper call ended
  g_stored,                 \* history: the call's cache.get read Redis and found
                            \* a value under cache_key
  \* ---- live reads through CachingTableWrapper
  g_live                    \* history: cache key -> the latest successful live select
                            \* stored under it: [untracked: the chained methods that
                            \* went through __getattr__, data]

poolVars == <<initialized, pool, clients, client_age, active_clients,
              active_connections, total_connections, failed_operations_count,
              circuit_breaker_open, breaker_age, waiting, putting,
              health_put, health_left, g_streak, g_since_open, g_tripped>>

degradedVars == <<cache, d_kind, table_name, query_params, d_calls, d_status,
                  d_response>>

trackerVars == <<failed_connections, retry_counts, exec_pc, exec_outcome,
                 exec_attempts, backend_script, tracker_raised, tracker_returned>>

fallbackVars == <<fallback_returned>>

tenantVars == <<tenant_cache, tenant_returned, g_tenant_set>>

\* Startup of the pool: kept apart from poolVars, only initialize() writes them.
initVars == <<background_tasks, initialize_calls>>

coreVars == <<poolVars, initVars, degradedVars, trackerVars, fallbackVars>>
redisVars == <<redis, redis_returned>>

settingsVars == <<company_settings_cache, settings_returned, company_settings_db>>

taskVars == <<tasks, active_tasks, user_task_limits, task_returned, g_cancelled,
              g_ended_age>>

liveVars == <<g_live>>

usersVars == <<users_db, users_cache, list_pc, list_data, write_pc, users_returned,
               g_write_done>>

sweepVars == <<operation_timeouts, g_tracked_age>>

decoratorVars == <<response_cache, w_pc, w_key, func_calls, w_result, w_returned,
                   g_stored>>

appVars == <<tenantVars, redisVars, settingsVars, taskVars, liveVars, usersVars,
             sweepVars,
             decoratorVars>>
vars == <<coreVars, appVars>>

\* What the actions of one component leave unchanged.
nonInitPoolVars == <<degradedVars, trackerVars, fallbackVars, appVars>>
nonPoolVars == <<initVars, nonInitPoolVars>>
nonDegradedVars == <<poolVars, initVars, trackerVars, fallbackVars, appVars>>
nonTrackerVars == <<poolVars, initVars, degradedVars, fallbackVars, appVars>>
nonTenantVars == <<coreVars, redisVars, settingsVars, taskVars, liveVars,
                   usersVars, sweepVars,
             decoratorVars>>
nonRedisVars == <<coreVars, tenantVars, settingsVars, taskVars, liveVars,
                   usersVars, sweepVars,
             decoratorVars>>
nonSettingsVars == <<coreVars, tenantVars, redisVars, taskVars, liveVars,
                   usersVars, sweepVars,
             decoratorVars>>
nonTaskVars == <<coreVars, tenantVars, redisVars, settingsVars, liveVars,
                   usersVars, sweepVars,
             decoratorVars>>
nonLiveVars == <<poolVars, initVars, trackerVars, fallbackVars, tenantVars, redisVars,
                 settingsVars, taskVars, usersVars, sweepVars,
             decoratorVars>>
nonUsersVars == <<coreVars, tenantVars, redisVars, settingsVars, taskVars, liveVars,
                  sweepVars,
             decoratorVars>>
nonDecoratorVars == <<coreVars, tenantVars, redisVars, settingsVars, taskVars,
                      liveVars, usersVars, sweepVars>>
\* What the tracker calls that write retry_counts leave unchanged.
nonSweepTrackerVars == <<poolVars, initVars, degradedVars, fallbackVars, tenantVars,
                         redisVars, settingsVars, taskVars, liveVars, usersVars,
                         operation_timeouts, decoratorVars>>

(***************************************************************************)
(* Helpers                                                                 *)
(***************************************************************************)
Min(a, b) == IF a <= b THEN a ELSE b
Max(a, b) == IF a >= b THEN a ELSE b
Range(s) == {s[i] : i \in DOMAIN s}

\* Client handles.  Enough names for every handle that can be alive at once.
Handles == 1..(MaxConnections + NumCallers + 2)

\* Every handle some part of the program still refers to.
UsedHandles == Range(pool) \cup clients \cup DOMAIN client_age \cup active_clients
               \cup putting \cup ({health_put} \ {0})

\* _create_client() handing out one and the same object every time
CreateClient_same(used) == 1

\* _create_client(): a new object, distinct from every handle in use.
CreateClient(used) == CHOOSE h \in Handles \ used : \A k \in Handles \ used : h <= k

\* Restriction of the created-times map to the keys in S.
Restrict(f, S) == [c \in (DOMAIN f) \cap S |-> f[c]]
\* _client_created_times[c] = time.time()
Stamp(f, c) == [k \in (DOMAIN f) \cup {c} |-> IF k = c THEN 0 ELSE f[k]]

AgeCap == RecycleInterval + 1

(***************************************************************************)
(* SupabaseConnectionPool                                                  *)
(***************************************************************************)
PoolInit ==
  /\ initialized = FALSE
  /\ pool = <<>>
  /\ clients = {}
  /\ client_age = <<>>
  /\ active_clients = {}
  /\ active_connections = 0
  /\ total_connections = 0
  /\ failed_operations_count = 0
  /\ circuit_breaker_open = FALSE
  /\ breaker_age = 0
  /\ waiting = 0
  /\ putting = {}
  /\ health_put = 0
  /\ health_left = 0
  /\ g_streak = 0
  /\ g_since_open = 0
  /\ g_tripped = FALSE
  /\ background_tasks = 0
  /\ initialize_calls = 0

\* Frames of get_client that are open.
OpenScopes == waiting + Cardinality(active_clients) + Cardinality(putting)

\* initialize(): the loop `for i in range(min(10, max_connections))`.
RECURSIVE InitBatch(_, _)
InitBatch(st, n) ==
  IF n <= 0 THEN st
  ELSE LET h == CreateClient(st.used)
       IN InitBatch([pool |-> Append(st.pool, h),
                     clients |-> st.clients \cup {h},
                     age |-> Stamp(st.age, h),
                     used |-> st.used \cup {h}], n - 1)

\* `if self._initialized:` without the early return
AlreadyInitialized_never(flag) == FALSE

\* if self._initialized: return
AlreadyInitialized(flag) == flag

\* The body of initialize(): it leaves initialize_calls to its two callers.
InitializeBody ==
  IF AlreadyInitialized(initialized)
  THEN UNCHANGED <<poolVars, background_tasks, nonInitPoolVars>>
  ELSE LET st == InitBatch([pool |-> pool, clients |-> clients,
                            age |-> client_age, used |-> UsedHandles],
                           Min(InitialBatch, MaxConnections))
       IN /\ pool' = st.pool
          /\ clients' = st.clients
          /\ client_age' = st.age
          /\ total_connections' = Cardinality(st.clients)
          /\ background_tasks' = background_tasks + 2
          /\ initialized' = TRUE
          /\ UNCHANGED <<active_clients, active_connections, failed_operations_count,
                         circuit_breaker_open, breaker_age, waiting,
                         putting, health_put, health_left,
                         g_streak, g_since_open, g_tripped,
                         nonInitPoolVars>>

\* initialize()
Initialize == InitializeBody /\ UNCHANGED initialize_calls

\* initialize(), the calls being counted
InitializeCall ==
  /\ InitializeBody
  /\ initialize_calls' = Min(initialize_calls + 1, 2)

\* time.time() - _circuit_breaker_opened_at < _circuit_breaker_timeout
InCooldown_short(age) == age + 1 < CircuitBreakerTimeout
InCooldown(age) == age < CircuitBreakerTimeout

\* get_client(), from the call to the suspension in wait_for(_pool.get()).
GetClient ==
  /\ initialized
  /\ OpenScopes < NumCallers
  /\ g_tripped' = FALSE
  /\ IF circuit_breaker_open /\ InCooldown(breaker_age)
     THEN \* yield GracefulDegradationClient(fallback_service); return
          UNCHANGED <<circuit_breaker_open, failed_operations_count, waiting,
                      g_streak>>
     ELSE /\ circuit_breaker_open' = FALSE
          /\ failed_operations_count' =
               IF circuit_breaker_open THEN 0 ELSE failed_operations_count
          /\ g_streak' = IF circuit_breaker_open THEN 0 ELSE g_streak
          /\ waiting' = waiting + 1
  /\ UNCHANGED <<initialized, pool, clients, client_age, active_clients,
                 active_connections, total_connections, breaker_age, putting,
                 health_put, health_left, g_since_open,
                 nonPoolVars>>

\* _pool.get() returns a client; it is marked active and yielded.
PoolGet ==
  /\ waiting > 0
  /\ pool # <<>>
  /\ waiting' = waiting - 1
  /\ pool' = Tail(pool)
  /\ active_clients' = active_clients \cup {Head(pool)}
  /\ active_connections' = active_connections + 1
  /\ UNCHANGED <<initialized, clients, client_age, total_connections,
                 failed_operations_count, circuit_breaker_open, breaker_age,
                 putting, health_put, health_left,
                 g_streak, g_since_open, g_tripped,
                 nonPoolVars>>

\* if self._failed_operations_count >= self._circuit_breaker_threshold
ShouldOpen_gt(count) == count > CircuitBreakerThreshold
ShouldOpen(count) == count >= CircuitBreakerThreshold

\* the `except Exception` block without the test that opens the breaker
OperationFailed_noOpen ==
  /\ failed_operations_count' = failed_operations_count + 1
  /\ g_streak' = g_streak + 1
  /\ UNCHANGED <<circuit_breaker_open, breaker_age, g_since_open, g_tripped>>

\* The `except Exception` block of get_client.
OperationFailed ==
  /\ failed_operations_count' = failed_operations_count + 1
  /\ g_streak' = g_streak + 1
  /\ IF ShouldOpen(failed_operations_count + 1)
     THEN /\ circuit_breaker_open' = TRUE
          /\ breaker_age' = 0
     ELSE UNCHANGED <<circuit_breaker_open, breaker_age>>
  /\ g_since_open' = IF ~circuit_breaker_open /\ circuit_breaker_open'
                     THEN 0 ELSE g_since_open
  /\ g_tripped' = IF ~circuit_breaker_open /\ circuit_breaker_open'
                  THEN TRUE ELSE g_tripped

\* wait_for times out on the empty pool: a new client below the ceiling,
\* else the pool-exhausted exception, which the `except Exception` block counts.
TimeoutCreate ==
  /\ Cardinality(clients) < MaxConnections
  /\ LET h == CreateClient(UsedHandles)
     IN /\ clients' = clients \cup {h}
        /\ client_age' = Stamp(client_age, h)
        /\ active_clients' = active_clients \cup {h}
        /\ active_connections' = active_connections + 1
        /\ total_connections' = total_connections + 1
  /\ UNCHANGED <<failed_operations_count, circuit_breaker_open, breaker_age,
                 g_streak, g_since_open, g_tripped>>

TimeoutExhausted ==
  /\ ~(Cardinality(clients) < MaxConnections)
  /\ OperationFailed
  /\ UNCHANGED <<clients, client_age, active_clients,
                 active_connections, total_connections>>

PoolGetTimeout ==
  /\ waiting > 0
  /\ pool = <<>>
  /\ health_put = 0            \* self._lock is free
  /\ waiting' = waiting - 1
  /\ (TimeoutCreate \/ TimeoutExhausted)
  /\ UNCHANGED <<initialized, pool, putting, health_put, health_left,
                 nonPoolVars>>

\* _should_recycle_client
ShouldRecycleClient(h) ==
  IF h \notin DOMAIN client_age THEN TRUE ELSE client_age[h] > RecycleInterval

\* self._failed_operations_count = 0 after the body completed
CountAfterSuccess_keep(count) == count
CountAfterSuccess(count) == 0

Outcomes == {"ok", "error", "cancelled"}

\* The body of a live scope ends: normally ("ok"), with an Exception ("error"),
\* or with a BaseException such as CancelledError ("cancelled"), followed by the
\* `finally` block up to its _pool.put().
ScopeExit(h, outcome) ==
  /\ h \in active_clients
  /\ CASE outcome = "ok" ->
            /\ failed_operations_count' = CountAfterSuccess(failed_operations_count)
            /\ g_streak' = 0
            /\ UNCHANGED <<circuit_breaker_open, breaker_age, g_since_open, g_tripped>>
       [] outcome = "error" -> OperationFailed
       [] OTHER ->
            UNCHANGED <<failed_operations_count, circuit_breaker_open, breaker_age,
                        g_streak, g_since_open, g_tripped>>
  /\ active_clients' = active_clients \ {h}
  /\ active_connections' = active_connections - 1
  /\ LET recycle == ShouldRecycleClient(h)
         new == CreateClient(UsedHandles)
         back == IF recycle THEN new ELSE h
     IN /\ clients' = IF recycle THEN (clients \ {h}) \cup {new} ELSE clients
        /\ client_age' = IF recycle
                         THEN Stamp(Restrict(client_age, DOMAIN client_age \ {h}), new)
                         ELSE client_age
        /\ IF Len(pool) < MaxConnections
           THEN pool' = Append(pool, back) /\ UNCHANGED putting
           ELSE putting' = putting \cup {back} /\ UNCHANGED pool
  /\ UNCHANGED <<initialized, total_connections, waiting, health_put, health_left,
                 nonPoolVars>>

\* A suspended _pool.put() of a get_client frame completes.
PutResume(h) ==
  /\ h \in putting
  /\ Len(pool) < MaxConnections
  /\ pool' = Append(pool, h)
  /\ putting' = putting \ {h}
  /\ UNCHANGED <<initialized, clients, client_age, active_clients, active_connections,
                 total_connections, failed_operations_count, circuit_breaker_open,
                 breaker_age, waiting, health_put, health_left,
                 g_streak, g_since_open, g_tripped,
                 nonPoolVars>>

\* The `for _ in range(connections_to_create)` loop of _check_pool_health, up to
\* its end or to a _pool.put() that finds the queue full.
RECURSIVE HealthLoop(_, _)
HealthLoop(st, n) ==
  IF n <= 0 THEN st
  ELSE LET h == CreateClient(st.used)
           made == [st EXCEPT !.clients = @ \cup {h},
                              !.age = Stamp(@, h),
                              !.used = @ \cup {h}]
       IN IF Len(st.pool) < MaxConnections
          THEN HealthLoop([made EXCEPT !.pool = Append(@, h),
                                       !.total = @ + 1], n - 1)
          ELSE [made EXCEPT !.put = h, !.left = n - 1]

HealthState == [pool |-> pool, clients |-> clients, age |-> client_age,
                used |-> UsedHandles, total |-> total_connections,
                put |-> 0, left |-> 0]

HealthApply(st) ==
  /\ pool' = st.pool
  /\ clients' = st.clients
  /\ client_age' = st.age
  /\ total_connections' = st.total
  /\ health_put' = st.put
  /\ health_left' = st.left
  /\ UNCHANGED <<initialized, active_clients, active_connections,
                 failed_operations_count, circuit_breaker_open, breaker_age,
                 waiting, putting, g_streak, g_since_open, g_tripped,
                 nonPoolVars>>

\* min_connections = max(5, self.max_connections // 4)
MinConnections == Max(MinPoolFloor, MaxConnections \div FloorDivisor)

\* _check_pool_health
CheckPoolHealth ==
  /\ initialized
  /\ health_put = 0
  /\ LET available == Len(pool)
         to_create == Min(MinConnections - available,
                          MaxConnections - Cardinality(clients))
     IN IF available < MinConnections
        THEN HealthApply(HealthLoop(HealthState, to_create))
        ELSE UNCHANGED vars

\* The suspended _pool.put() of the health check completes and its loop goes on.
HealthResume ==
  /\ health_put # 0
  /\ Len(pool) < MaxConnections
  /\ HealthApply(HealthLoop([HealthState EXCEPT !.pool = Append(@, health_put),
                                                 !.total = @ + 1],
                            health_left))

\* How far below zero the model follows metrics.total_connections: further
\* decrements leave it at -MaxDeficit.
MaxDeficit == 0

\* _cleanup_stale_connections
StaleClients == {c \in DOMAIN client_age :
                   client_age[c] > RecycleInterval /\ c \notin active_clients}

CleanupStaleConnections ==
  /\ initialized
  /\ clients' = clients \ StaleClients
  /\ client_age' = Restrict(client_age, DOMAIN client_age \ StaleClients)
  /\ total_connections' = Max(total_connections - Cardinality(StaleClients),
                               0 - MaxDeficit)
  /\ UNCHANGED <<initialized, pool, active_clients, active_connections,
                 failed_operations_count, circuit_breaker_open, breaker_age,
                 waiting, putting, health_put, health_left,
                 g_streak, g_since_open, g_tripped,
                 nonPoolVars>>

\* get_pool_status(): the three connection counts of the returned dict.
GetPoolStatus ==
  [total_connections |-> total_connections,
   available_connections |-> Len(pool),
   active_connections |-> active_connections]

\* Time passes.
PoolTick ==
  /\ client_age' = [c \in DOMAIN client_age |-> Min(client_age[c] + 1, AgeCap)]
  /\ breaker_age' = IF circuit_breaker_open
                    THEN Min(breaker_age + 1, CircuitBreakerTimeout) ELSE breaker_age
  /\ g_since_open' = IF circuit_breaker_open
                     THEN Min(g_since_open + 1, CircuitBreakerTimeout) ELSE g_since_open
  /\ UNCHANGED <<initialized, pool, clients, active_clients, active_connections,
                 total_connections, failed_operations_count, circuit_breaker_open,
                 waiting, putting, health_put, health_left,
                 g_streak, g_tripped, nonPoolVars>>

PoolSteps ==
  \/ GetClient
  \/ PoolGet
  \/ PoolGetTimeout
  \/ \E h \in Handles, o \in Outcomes : ScopeExit(h, o)
  \/ \E h \in Handles : PutResume(h)
  \/ CheckPoolHealth
  \/ HealthResume
  \/ CleanupStaleConnections
  \/ PoolTick

PoolNext ==
  \/ Initialize
  \/ PoolSteps

\* The pool, every initialize() call counted.
InitNext ==
  \/ InitializeCall
  \/ PoolSteps

(***************************************************************************)
(* Python dicts are functions on their keys.  None is the string "None".   *)
(***************************************************************************)
None == "None"
EmptyDict == [k \in {} |-> k]
Put(d, k, v) == [x \in (DOMAIN d) \cup {k} |-> IF x = k THEN v ELSE d[x]]
Del(d, k) == [x \in (DOMAIN d) \ {k} |-> d[x]]
\* d.get(k), for the keys whose values are strings or None
Get(d, k) == IF k \in DOMAIN d THEN d[k] ELSE None

(***************************************************************************)
(* CircuitBreakerFallback.  Of a fallback payload the model keeps the keys *)
(* data, count, error, fallback, fallback_type and retry_after; message,   *)
(* timestamp, operation_type and params are left out.                      *)
(***************************************************************************)
\* cache_ttl (300 s in the source), in ticks
CacheTtl == 1

\* operation_type.lower(), on the names the model uses
Lower(name) == IF name = "Users" THEN "users" ELSE name

\* _generate_cache_key.  hash(json.dumps(params, sort_keys=True)) is taken to
\* be injective on the serialised parameters; an empty dict is falsy.
GenerateCacheKey(operation_type, params) ==
  IF params # EmptyDict THEN <<operation_type, params>> ELSE <<operation_type>>

\* get_cached_response: [cache: the cache afterwards, found, data]
GetCachedResponse(c, cache_key) ==
  IF cache_key \in DOMAIN c
  THEN IF c[cache_key].age < CacheTtl
       THEN LET marked == Put(Put(c[cache_key].data, "_fallback_cached", TRUE),
                              "_cached_at", "timestamp")
            IN [cache |-> Put(c, cache_key, [c[cache_key] EXCEPT !.data = marked]),
                found |-> TRUE, data |-> marked]
       ELSE [cache |-> Del(c, cache_key), found |-> FALSE, data |-> EmptyDict]
  ELSE [cache |-> c, found |-> FALSE, data |-> EmptyDict]

\* cache_response without the test of 'error'
CacheResponse_always(c, cache_key, response) ==
  Put(c, cache_key, [data |-> response, age |-> 0])

\* cache_response: only a dict without a truthy 'error' is stored
CacheResponse(c, cache_key, response) ==
  IF Get(response, "error") \in {None, ""}
  THEN Put(c, cache_key, [data |-> response, age |-> 0])
  ELSE c

ReservationsFallback ==
  [data |-> <<>>, count |-> 0, error |-> None, fallback |-> TRUE,
   fallback_type |-> "reservations", retry_after |-> 60]

PropertiesFallback ==
  [data |-> <<>>, count |-> 0, error |-> None, fallback |-> TRUE,
   fallback_type |-> "properties", retry_after |-> 60]

UsersFallback ==
  [data |-> <<>>, count |-> 0, error |-> None, fallback |-> TRUE,
   fallback_type |-> "users", retry_after |-> 30]

HealthFallback ==
  [status |-> "degraded", fallback |-> TRUE, retry_after |-> 30]

DefaultFallback(operation_type) ==
  [error |-> "Service temporarily unavailable for " \o operation_type,
   fallback |-> TRUE, fallback_type |-> "default", retry_after |-> 60]

\* get_fallback_response: [cache: the cache afterwards, response]
GetFallbackResponse(c, operation_type, params) ==
  LET got == GetCachedResponse(c, GenerateCacheKey(operation_type, params))
      op == Lower(operation_type)
  IN IF got.found /\ got.data # EmptyDict
     THEN [cache |-> got.cache, response |-> got.data]
     ELSE [cache |-> got.cache,
           response |->
             IF op \in {"reservation", "reservations"} THEN ReservationsFallback
             ELSE IF op \in {"property", "properties"} THEN PropertiesFallback
             ELSE IF op \in {"user", "users"} THEN UsersFallback
             ELSE IF op \in {"health", "status"} THEN HealthFallback
             ELSE DefaultFallback(operation_type)]

(***************************************************************************)
(* GracefulDegradationClient, and the caching wrappers of the live client  *)
(***************************************************************************)
\* chained calls on one query before execute()
MaxChain == 2
\* entries the fallback cache holds at once
MaxCached == 1

TableNames == {"Users", "audit_log"}
FunctionNames == {"get_stats"}
EqValues == {1}
RpcParams == {Put(EmptyDict, "tenant_id", 1)}
\* results of a successful backend query: data and count
BackendResults == {[data |-> <<>>, count |-> 0], [data |-> <<"row">>, count |-> 1]}

\* The chainable methods of the live surface (AsyncTable).
ChainMethods == {"select", "insert", "update", "upsert", "delete", "eq", "neq",
                 "gt", "gte", "lt", "lte", "in_", "is_", "order", "limit",
                 "single", "maybe_single", "range"}
\* The attributes class GracefulDegradationTable defines.
TableMethods == {"select", "insert", "update", "delete", "eq", "limit", "order",
                 "execute"}

DegradedInit ==
  /\ cache = EmptyDict
  /\ d_kind = "table"
  /\ table_name = "Users"
  /\ query_params = EmptyDict
  /\ d_calls = {}
  /\ d_status = "idle"
  /\ d_response = <<>>
  /\ g_live = EmptyDict

\* FallbackResponse.__init__: data if isinstance(data, list) else [data] if data else []
FallbackResponse(data) == IF data # EmptyDict THEN <<data>> ELSE <<>>

\* GracefulDegradationClient.table
Table(name) ==
  /\ d_status # "building"
  /\ d_kind' = "table"
  /\ table_name' = name
  /\ query_params' = EmptyDict
  /\ d_calls' = {}
  /\ d_status' = "building"
  /\ d_response' = <<>>
  /\ UNCHANGED <<cache, nonDegradedVars>>

\* GracefulDegradationClient.rpc
Rpc(function_name, params) ==
  /\ d_status # "building"
  /\ d_kind' = "rpc"
  /\ table_name' = function_name
  /\ query_params' = params
  /\ d_calls' = {}
  /\ d_status' = "building"
  /\ d_response' = <<>>
  /\ UNCHANGED <<cache, nonDegradedVars>>

\* A chained call of a method the table defines: it records its argument in
\* query_params and returns self.  Each method is called at most once per query.
Chain(method, params) ==
  /\ d_status = "building"
  /\ d_kind = "table"
  /\ method \notin d_calls
  /\ Cardinality(d_calls) < MaxChain
  /\ query_params' = params
  /\ d_calls' = d_calls \cup {method}
  /\ UNCHANGED <<cache, d_kind, table_name, d_status, d_response,
                 nonDegradedVars>>

Table_select(columns) == Chain("select", Put(query_params, "select", columns))
Table_insert(data) == Chain("insert", Put(query_params, "insert", data))
Table_update(data) == Chain("update", Put(query_params, "update", data))
Table_delete == Chain("delete", Put(query_params, "delete", TRUE))
Table_eq(column, value) ==
  Chain("eq", Put(query_params, "filters",
                  Append(IF "filters" \in DOMAIN query_params
                         THEN query_params["filters"] ELSE <<>>,
                         <<"eq", column, value>>)))
Table_limit(count) == Chain("limit", Put(query_params, "limit", count))
Table_order(column, desc) == Chain("order", Put(query_params, "order", <<column, desc>>))

\* A chained call of a method the table does not define: the attribute lookup
\* raises AttributeError (the class has no __getattr__).
Table_missing(method) ==
  /\ d_status = "building"
  /\ d_kind = "table"
  /\ method \notin TableMethods
  /\ Cardinality(d_calls) < MaxChain
  /\ d_calls' = d_calls \cup {method}
  /\ d_status' = "raised"
  /\ UNCHANGED <<cache, d_kind, table_name, query_params, d_response,
                 nonDegradedVars>>

WriteUnavailable ==
  [error |-> "Write operations temporarily unavailable", fallback |-> TRUE,
   retry_after |-> 60]

\* GracefulDegradationTable.execute
Table_execute ==
  /\ d_status = "building"
  /\ d_kind = "table"
  /\ IF \E key \in {"insert", "update", "delete"} : key \in DOMAIN query_params
     THEN /\ d_response' = FallbackResponse(WriteUnavailable)
          /\ cache' = cache
     ELSE LET r == GetFallbackResponse(cache, table_name, query_params)
          IN /\ d_response' = FallbackResponse(r.response)
             /\ cache' = r.cache
  /\ d_status' = "returned"
  /\ UNCHANGED <<d_kind, table_name, query_params, d_calls, nonDegradedVars>>

\* GracefulDegradationRPC.execute
Rpc_execute ==
  /\ d_status = "building"
  /\ d_kind = "rpc"
  /\ LET r == GetFallbackResponse(cache, "rpc_" \o table_name, query_params)
     IN /\ d_response' = FallbackResponse(r.response)
        /\ cache' = r.cache
  /\ d_status' = "returned"
  /\ UNCHANGED <<d_kind, table_name, query_params, d_calls, nonDegradedVars>>

\* _query_params a live query may have built (select, eq are tracked; a query
\* without select is a write or a bare execute).
LiveQueryParams ==
  {EmptyDict, Put(EmptyDict, "select", <<"*">>)}
  \cup {Put(Put(EmptyDict, "select", <<"*">>), "filters", <<<<"eq", "id", v>>>>) :
          v \in EqValues}

\* The fallback cache has room for an entry under cache_key.
CacheHasRoom(cache_key) ==
  cache_key \in DOMAIN cache \/ Cardinality(DOMAIN cache) < MaxCached

\* Chained methods of a live query that CachingTableWrapper does not define:
\* they reach the real table through __getattr__ and leave _query_params alone.
LiveUntracked == {{}, {"gt"}}

\* CachingTableWrapper.execute, the backend query having succeeded; params is
\* _query_params, untracked the methods chained through __getattr__
CachingTable_execute(name, params, untracked, result) ==
  /\ CacheHasRoom(GenerateCacheKey(name, params))
  /\ cache' = IF "select" \in DOMAIN params
              THEN CacheResponse(cache, GenerateCacheKey(name, params),
                                 [data |-> result.data, count |-> result.count])
              ELSE cache
  /\ g_live' = IF "select" \in DOMAIN params
               THEN Restrict(Put(g_live, GenerateCacheKey(name, params),
                                 [untracked |-> untracked, data |-> result.data]),
                             DOMAIN cache')
               ELSE g_live
  /\ UNCHANGED <<d_kind, table_name, query_params, d_calls, d_status, d_response,
                 nonLiveVars>>

\* CachingRPCWrapper.execute, the backend call having succeeded
CachingRPC_execute(function_name, params, result) ==
  /\ CacheHasRoom(GenerateCacheKey("rpc_" \o function_name, params))
  /\ cache' = CacheResponse(cache, GenerateCacheKey("rpc_" \o function_name, params),
                            [data |-> result.data, function |-> function_name])
  /\ UNCHANGED <<d_kind, table_name, query_params, d_calls, d_status, d_response,
                 nonDegradedVars>>

\* Time passes.
DegradedTick ==
  /\ cache' = [k \in DOMAIN cache |->
                 [cache[k] EXCEPT !.age = Min(@ + 1, CacheTtl)]]
  /\ UNCHANGED <<d_kind, table_name, query_params, d_calls, d_status, d_response,
                 nonDegradedVars>>

DegradedNext ==
  \/ \E name \in TableNames : Table(name)
  \/ \E f \in FunctionNames, params \in RpcParams : Rpc(f, params)
  \/ Table_select(<<"*">>)
  \/ Table_insert([id |-> 1])
  \/ Table_update([id |-> 1])
  \/ Table_delete
  \/ \E v \in EqValues : Table_eq("id", v)
  \/ Table_limit(1)
  \/ Table_order("id", FALSE)
  \/ \E method \in ChainMethods : Table_missing(method)
  \/ Table_execute
  \/ Rpc_execute
  \/ \E name \in TableNames, params \in LiveQueryParams,
        untracked \in LiveUntracked, result \in BackendResults :
       CachingTable_execute(name, params, untracked, result)
  \/ \E f \in FunctionNames, params \in RpcParams, result \in BackendResults :
       CachingRPC_execute(f, params, result)
  \/ DegradedTick

(***************************************************************************)
(* Direct calls on the fallback service (fallback_service.cache_response,  *)
(* fallback_service.get_cached_response)                                   *)
(***************************************************************************)
\* cache keys the calls are made with
FallbackKeys == {GenerateCacheKey("users", EmptyDict),
                 GenerateCacheKey("rpc_get_stats", Put(EmptyDict, "tenant_id", 1))}

\* responses handed to cache_response: a result, a result whose 'error' is
\* None, and a response flagged with an error
FallbackResponses ==
  {[data |-> <<"row">>, count |-> 1],
   [data |-> <<>>, count |-> 0, error |-> None],
   [data |-> <<>>, error |-> "Service temporarily unavailable", fallback |-> TRUE]}

\* response.get('error') is truthy
ErrorFlagged(response) == Get(response, "error") \notin {None, ""}

FallbackInit == fallback_returned = [call |-> "none"]

\* cache_response(cache_key, response); prior: the key had an entry before
CacheResponseCall(cache_key, response) ==
  /\ cache' = CacheResponse(cache, cache_key, response)
  /\ fallback_returned' = [call |-> "cache_response", cache_key |-> cache_key,
                           response |-> response,
                           prior |-> cache_key \in DOMAIN cache]
  /\ UNCHANGED <<d_kind, table_name, query_params, d_calls, d_status, d_response,
                 poolVars, initVars, trackerVars, appVars>>

\* get_cached_response(cache_key); found = FALSE: it returned None
GetCachedResponseCall(cache_key) ==
  LET got == GetCachedResponse(cache, cache_key)
  IN /\ cache' = got.cache
     /\ fallback_returned' = [call |-> "get_cached_response",
                              cache_key |-> cache_key,
                              found |-> got.found, data |-> got.data,
                              expired |-> cache_key \in DOMAIN cache
                                          /\ cache_key \notin DOMAIN got.cache]
     /\ UNCHANGED <<d_kind, table_name, query_params, d_calls, d_status,
                    d_response, poolVars, initVars, trackerVars, appVars>>

FallbackNext ==
  \/ \E cache_key \in FallbackKeys, response \in FallbackResponses :
       CacheResponseCall(cache_key, response)
  \/ \E cache_key \in FallbackKeys : GetCachedResponseCall(cache_key)
  \/ DegradedTick

(***************************************************************************)
(* ConnectionTracker                                                       *)
(***************************************************************************)
\* settings.database_max_retries
MaxRetries == 2
\* cap of the failure and retry counters
MaxCount == 3
\* settings.database_retry_delay (base_delay), in seconds
BaseDelay == 8
\* the cap of get_retry_delay: min(..., 30.0)
DelayCap == 30

\* Positional parameters of record_failure after self: (operation_id=None)
RecordFailureParams == 1

\* Operation ids: the uuid4 of each execute() call, and an id other code uses.
ExecOps == {"op1", "op2"}
OtherOps == {"ext"}
ErrorTypes == {None, "connection", "timeout", "pool_exhausted"}

\* retry_counts.get(operation_id, 0)
RetryCount(counts, operation_id) ==
  IF operation_id \in DOMAIN counts THEN counts[operation_id] ELSE 0

TrackerInit ==
  /\ failed_connections = 0
  /\ retry_counts = EmptyDict
  /\ exec_pc = [op \in ExecOps |-> "idle"]
  /\ exec_outcome = [op \in ExecOps |-> "none"]
  /\ exec_attempts = [op \in ExecOps |-> 0]
  /\ backend_script = [op \in ExecOps |-> 0]
  /\ tracker_raised = "none"
  /\ tracker_returned = [call |-> "none"]
  /\ operation_timeouts = EmptyDict
  /\ g_tracked_age = EmptyDict

\* A call passing `args` positionally binds them to the parameters, or raises
\* TypeError when there are more of them than parameters.
Binds(args, params) == Len(args) <= params

\* The body of record_failure: [failed, counts] afterwards
RecordFailure(failed, counts, operation_id) ==
  [failed |-> failed + 1,
   counts |-> IF operation_id # None
              THEN Put(counts, operation_id, RetryCount(counts, operation_id) + 1)
              ELSE counts]

\* record_success dropping the retry counts of every operation
RecordSuccess_clearAll(failed, counts, operation_id) ==
  [failed |-> Max(0, failed - 1), counts |-> EmptyDict]

\* The body of record_success: [failed, counts] afterwards
RecordSuccess(failed, counts, operation_id) ==
  [failed |-> Max(0, failed - 1),
   counts |-> IF operation_id # None /\ operation_id \in DOMAIN counts
              THEN Del(counts, operation_id) ELSE counts]

\* should_retry with the error-type test ahead of the retry-count test
ShouldRetry_typeFirst(counts, operation_id, error_type) ==
  LET retry_count == RetryCount(counts, operation_id)
  IN IF error_type # None
        /\ error_type \in {"connection", "timeout", "pool_exhausted"}
     THEN TRUE
     ELSE retry_count < MaxRetries

\* should_retry
ShouldRetry(counts, operation_id, error_type) ==
  LET retry_count == RetryCount(counts, operation_id)
  IN IF retry_count >= MaxRetries THEN FALSE
     ELSE IF error_type # None
             /\ error_type \in {"connection", "timeout", "pool_exhausted"}
          THEN TRUE
          ELSE retry_count < MaxRetries

\* connection_tracker.should_retry(operation_id, error_type), called by any code
ShouldRetryCall(operation_id, error_type) ==
  /\ tracker_returned' = [call |-> "should_retry", operation_id |-> operation_id,
                          error_type |-> error_type,
                          value |-> ShouldRetry(retry_counts, operation_id, error_type)]
  /\ tracker_raised' = "none"
  /\ UNCHANGED <<failed_connections, retry_counts, exec_pc, exec_outcome,
                 exec_attempts, backend_script, nonTrackerVars>>

\* delay = min(self.base_delay * (2 ** retry_count), 30.0), without the cap
RetryDelay_uncapped(retry_count) == BaseDelay * (2 ^ retry_count)
\* delay = min(self.base_delay * (2 ** retry_count), 30.0)
RetryDelay(retry_count) == Min(BaseDelay * (2 ^ retry_count), DelayCap)

\* get_retry_delay
GetRetryDelay(counts, operation_id) == RetryDelay(RetryCount(counts, operation_id))

\* connection_tracker.get_retry_delay(operation_id), called by any code
GetRetryDelayCall(operation_id) ==
  /\ tracker_returned' = [call |-> "get_retry_delay", operation_id |-> operation_id,
                          value |-> GetRetryDelay(retry_counts, operation_id)]
  /\ tracker_raised' = "none"
  /\ UNCHANGED <<failed_connections, retry_counts, exec_pc, exec_outcome,
                 exec_attempts, backend_script, nonTrackerVars>>

\* time.time() - the time the retry state of an operation was last written,
\* after a step that may write retry_counts
Retracked ==
  g_tracked_age' =
    [op \in DOMAIN retry_counts' |->
       IF op \in DOMAIN retry_counts /\ retry_counts'[op] = retry_counts[op]
       THEN g_tracked_age[op] ELSE 0]

\* connection_tracker.record_failure(*args), called by any code
RecordFailureCall(args) ==
  /\ IF Binds(args, RecordFailureParams)
     THEN LET operation_id == IF Len(args) >= 1 THEN args[1] ELSE None
              r == RecordFailure(failed_connections, retry_counts, operation_id)
          IN /\ failed_connections < MaxCount
             /\ RetryCount(retry_counts, operation_id) < MaxCount
             /\ failed_connections' = r.failed
             /\ retry_counts' = r.counts
             /\ tracker_raised' = "none"
     ELSE /\ tracker_raised' = "TypeError"
          /\ UNCHANGED <<failed_connections, retry_counts>>
  /\ UNCHANGED <<exec_pc, exec_outcome, exec_attempts, backend_script,
                 tracker_returned, nonSweepTrackerVars>>
  /\ Retracked

\* connection_tracker.record_success(operation_id), called by any code
RecordSuccessCall(operation_id) ==
  /\ LET r == RecordSuccess(failed_connections, retry_counts, operation_id)
     IN /\ failed_connections' = r.failed
        /\ retry_counts' = r.counts
  /\ tracker_raised' = "none"
  /\ UNCHANGED <<exec_pc, exec_outcome, exec_attempts, backend_script,
                 tracker_returned, nonSweepTrackerVars>>
  /\ Retracked

\* Operation ids of two operations that use the tracker at the same time.
ConcurrentOps == {"ext", "ext2"}

\* retry state older than this is stale (5 minutes)
OperationTtl == 1

\* cleanup_old_operations
CleanupOldOperations ==
  LET old_operations == {op_id \in DOMAIN operation_timeouts :
                           operation_timeouts[op_id] > OperationTtl}
  IN /\ retry_counts' = Restrict(retry_counts, DOMAIN retry_counts \ old_operations)
     /\ operation_timeouts' =
          Restrict(operation_timeouts, DOMAIN operation_timeouts \ old_operations)
     /\ Retracked
     /\ tracker_returned' = [call |-> "cleanup_old_operations"]
     /\ UNCHANGED <<failed_connections, exec_pc, exec_outcome, exec_attempts,
                    backend_script, tracker_raised, poolVars, initVars, degradedVars,
                    fallbackVars, tenantVars, redisVars, settingsVars, taskVars,
                    liveVars, usersVars, decoratorVars>>

\* Time passes.
TrackerTick ==
  /\ g_tracked_age' = [op \in DOMAIN g_tracked_age |->
                         IF g_tracked_age[op] > OperationTtl
                         THEN g_tracked_age[op] ELSE g_tracked_age[op] + 1]
  /\ operation_timeouts' = [op \in DOMAIN operation_timeouts |->
                              IF operation_timeouts[op] > OperationTtl
                              THEN operation_timeouts[op]
                              ELSE operation_timeouts[op] + 1]
  /\ UNCHANGED <<trackerVars, poolVars, initVars, degradedVars, fallbackVars,
                 tenantVars, redisVars, settingsVars, taskVars, liveVars, usersVars,
                 decoratorVars>>

\* The tracker calls made on behalf of the two operations, in any order.
TrackerCallsNext ==
  \/ CleanupOldOperations
  \/ TrackerTick
  \/ \E op \in ConcurrentOps : RecordFailureCall(<<op>>)
  \/ \E op \in ConcurrentOps : RecordSuccessCall(op)
  \/ \E op \in ConcurrentOps, error_type \in ErrorTypes :
       ShouldRetryCall(op, error_type)
  \/ \E op \in ConcurrentOps : GetRetryDelayCall(op)

(***************************************************************************)
(* AsyncTable.execute / AsyncRPC.execute (the two bodies differ only in    *)
(* the backend call they make)                                             *)
(***************************************************************************)
\* str(e).lower() of the exceptions the backend call raises
ErrorMessages == {"connection reset by peer", "request timed out",
                  "pool is exhausted", "connection pool exhausted (20 connections)",
                  "permission denied"}

\* The phrases of the classifier that occur in a message.
PhrasesIn(msg) ==
  CASE msg = "connection reset by peer" -> {"connection reset"}
    [] msg = "request timed out" -> {"timed out"}
    [] msg = "pool is exhausted" -> {"pool", "exhausted"}
    [] msg = "connection pool exhausted (20 connections)" ->
         {"pool exhausted", "pool", "exhausted"}
    [] OTHER -> {}

\* The classification of the except block
Classify(msg) ==
  IF PhrasesIn(msg) \cap {"resource temporarily unavailable", "connection reset",
                          "connection terminated", "connection refused",
                          "pool exhausted"} # {}
  THEN "connection"
  ELSE IF PhrasesIn(msg) \cap {"timeout", "timed out"} # {} THEN "timeout"
  ELSE IF {"pool", "exhausted"} \subseteq PhrasesIn(msg) THEN "pool_exhausted"
  ELSE None

\* execute() is called: a new operation id; the backend will fail `fails` attempts
ExecuteStart(op, fails) ==
  /\ exec_pc[op] \in {"idle", "done"}
  /\ op \notin DOMAIN retry_counts
  /\ exec_pc' = [exec_pc EXCEPT ![op] = "loop"]
  /\ exec_outcome' = [exec_outcome EXCEPT ![op] = "none"]
  /\ exec_attempts' = [exec_attempts EXCEPT ![op] = 0]
  /\ backend_script' = [backend_script EXCEPT ![op] = fails]
  /\ UNCHANGED <<failed_connections, retry_counts, tracker_raised,
                 tracker_returned, nonTrackerVars>>

\* while connection_tracker.should_retry(operation_id): start the backend call,
\* or fall out of the loop and return None
ExecuteLoop(op) ==
  /\ exec_pc[op] = "loop"
  /\ IF ShouldRetry(retry_counts, op, None)
     THEN /\ exec_pc' = [exec_pc EXCEPT ![op] = "backend"]
          /\ exec_attempts' = [exec_attempts EXCEPT ![op] = @ + 1]
          /\ UNCHANGED exec_outcome
     ELSE /\ exec_pc' = [exec_pc EXCEPT ![op] = "done"]
          /\ exec_outcome' = [exec_outcome EXCEPT ![op] = "None"]
          /\ UNCHANGED exec_attempts
  /\ UNCHANGED <<failed_connections, retry_counts, backend_script, tracker_raised,
                 tracker_returned, nonTrackerVars>>

\* The backend call returns: record_success(operation_id); return result
BackendReturns(op) ==
  /\ exec_pc[op] = "backend"
  /\ exec_attempts[op] > backend_script[op]
  /\ LET r == RecordSuccess(failed_connections, retry_counts, op)
     IN /\ failed_connections' = r.failed
        /\ retry_counts' = r.counts
  /\ exec_pc' = [exec_pc EXCEPT ![op] = "done"]
  /\ exec_outcome' = [exec_outcome EXCEPT ![op] = "result"]
  /\ UNCHANGED <<exec_attempts, backend_script, tracker_raised,
                 tracker_returned, nonSweepTrackerVars>>
  /\ Retracked

\* The backend call raises: the `except Exception` block
BackendRaises(op, msg) ==
  /\ exec_pc[op] = "backend"
  /\ exec_attempts[op] <= backend_script[op]
  /\ LET error_type == Classify(msg)
         f == RecordFailure(failed_connections, retry_counts, op)
         c == RecordSuccess(f.failed, f.counts, op)
     IN IF ~Binds(<<op, error_type>>, RecordFailureParams)
        THEN \* the call record_failure(operation_id, error_type) raises TypeError
             /\ exec_pc' = [exec_pc EXCEPT ![op] = "done"]
             /\ exec_outcome' = [exec_outcome EXCEPT ![op] = "TypeError"]
             /\ UNCHANGED <<failed_connections, retry_counts>>
        ELSE IF ShouldRetry(f.counts, op, error_type)
        THEN \* await asyncio.sleep(delay); continue
             /\ failed_connections' = f.failed
             /\ retry_counts' = f.counts
             /\ exec_pc' = [exec_pc EXCEPT ![op] = "loop"]
             /\ UNCHANGED exec_outcome
        ELSE \* record_success(operation_id); raise
             /\ failed_connections' = c.failed
             /\ retry_counts' = c.counts
             /\ exec_pc' = [exec_pc EXCEPT ![op] = "done"]
             /\ exec_outcome' = [exec_outcome EXCEPT ![op] = "backend error"]
  /\ UNCHANGED <<exec_attempts, backend_script, tracker_raised,
                 tracker_returned, nonSweepTrackerVars>>
  /\ Retracked

TrackerNext ==
  \/ \E op \in OtherOps, error_type \in ErrorTypes :
       \/ RecordFailureCall(<<>>)
       \/ RecordFailureCall(<<op>>)
       \/ RecordFailureCall(<<op, error_type>>)
  \/ \E op \in OtherOps \cup {None} : RecordSuccessCall(op)
  \/ \E op \in OtherOps \cup ExecOps, error_type \in ErrorTypes :
       ShouldRetryCall(op, error_type)
  \/ \E op \in OtherOps \cup ExecOps : GetRetryDelayCall(op)
  \/ \E op \in ExecOps, fails \in 0..MaxRetries : ExecuteStart(op, fails)
  \/ \E op \in ExecOps : ExecuteLoop(op)
  \/ \E op \in ExecOps : BackendReturns(op)
  \/ \E op \in ExecOps, msg \in ErrorMessages : BackendRaises(op, msg)

(***************************************************************************)
(* TenantCache (app/core/tenant_cache.py).  An entry keeps expires_at as   *)
(* the time left until it, expires_at - now; a tick lowers it by one, down *)
(* to -1.                                                                  *)
(***************************************************************************)
\* default_ttl (300 s in the source), in ticks
DefaultTtl == 2
TenantKeys == {"k1", "k2"}
TenantValues == {"a", "b"}
\* ttl arguments of set, as <<ttl>>: 0 and 1 tick, and <<>> for ttl=None
TenantTtls == {<<>>, <<0>>, <<1>>}

TenantInit ==
  /\ tenant_cache = EmptyDict
  /\ tenant_returned = [call |-> "none"]
  /\ g_tenant_set = EmptyDict

\* entry['expires_at'] < time.time(), without the eviction
Expired_never(entry) == FALSE

\* entry['expires_at'] < time.time()
Expired(entry) == entry.left < 0

\* TenantCache.get
TenantGet(key) ==
  /\ IF key \notin DOMAIN tenant_cache
     THEN /\ tenant_returned' = [call |-> "get", key |-> key, value |-> None]
          /\ tenant_cache' = tenant_cache
     ELSE IF Expired(tenant_cache[key])
     THEN /\ tenant_cache' = Del(tenant_cache, key)
          /\ tenant_returned' = [call |-> "get", key |-> key, value |-> None]
     ELSE /\ tenant_returned' = [call |-> "get", key |-> key,
                                 value |-> tenant_cache[key].value]
          /\ tenant_cache' = tenant_cache
  /\ UNCHANGED <<g_tenant_set, nonTenantVars>>

\* TenantCache.set
TenantSet(key, value, ttl) ==
  LET entry == [value |-> value, left |-> IF ttl # <<>> THEN ttl[1] ELSE DefaultTtl]
  IN /\ tenant_cache' = Put(tenant_cache, key, entry)
     /\ g_tenant_set' = Put(g_tenant_set, key, entry)
     /\ UNCHANGED <<tenant_returned, nonTenantVars>>

\* TenantCache.delete
TenantDelete(key) ==
  /\ tenant_cache' = Del(tenant_cache, key)
  /\ g_tenant_set' = Del(g_tenant_set, key)
  /\ UNCHANGED <<tenant_returned, nonTenantVars>>

\* TenantCache.clear
TenantClear ==
  /\ tenant_cache' = EmptyDict
  /\ g_tenant_set' = EmptyDict
  /\ UNCHANGED <<tenant_returned, nonTenantVars>>

\* TenantCache.clear_expired
TenantClearExpired ==
  /\ tenant_cache' = [k \in {x \in DOMAIN tenant_cache : ~Expired(tenant_cache[x])}
                        |-> tenant_cache[k]]
  /\ UNCHANGED <<tenant_returned, g_tenant_set, nonTenantVars>>

\* Time passes.
TenantTick ==
  /\ tenant_cache' = [k \in DOMAIN tenant_cache |->
                        [tenant_cache[k] EXCEPT !.left = Max(@ - 1, -1)]]
  /\ g_tenant_set' = [k \in DOMAIN g_tenant_set |->
                        [g_tenant_set[k] EXCEPT !.left = Max(@ - 1, -1)]]
  /\ UNCHANGED <<tenant_returned, nonTenantVars>>

TenantNext ==
  \/ \E key \in TenantKeys : TenantGet(key)
  \/ \E key \in TenantKeys, value \in TenantValues, ttl \in TenantTtls :
       TenantSet(key, value, ttl)
  \/ \E key \in TenantKeys : TenantDelete(key)
  \/ TenantClear
  \/ TenantClearExpired
  \/ TenantTick

(***************************************************************************)
(* RedisCacheService and GuestPortalCache (app/core/redis_cache.py), with  *)
(* the Redis server reachable.  Keys are the strings the code builds; of   *)
(* the glob syntax of KEYS the model has '*' and literal characters.       *)
(***************************************************************************)
RedisTenantIds == {"1", "10", "2"}
PortalTokens == {"p1"}

\* ":".join(key_parts)
RECURSIVE Join(_)
Join(parts) ==
  IF Len(parts) = 1 THEN parts[1] ELSE parts[1] \o ":" \o Join(Tail(parts))

\* the f"{key}:{value}" parts of the keyword arguments, which are given as
\* <<key, value>> pairs sorted by key; a value of None is skipped
RECURSIVE KwargParts(_)
KwargParts(kwargs) ==
  IF kwargs = <<>> THEN <<>>
  ELSE (IF kwargs[1][2] # None
        THEN <<kwargs[1][1] \o ":" \o kwargs[1][2]>> ELSE <<>>)
       \o KwargParts(Tail(kwargs))

\* RedisCacheService._make_key
MakeKey(prefix, identifier, tenant_id, kwargs) ==
  Join(<<prefix, identifier>>
       \o (IF tenant_id \notin {None, ""} THEN <<"tenant:" \o tenant_id>> ELSE <<>>)
       \o KwargParts(kwargs))

\* KEYS pattern: the glob match of Redis, '*' matching any run of characters
RECURSIVE GlobMatch(_, _)
GlobMatch(pattern, key) ==
  IF pattern = "" THEN key = ""
  ELSE IF SubSeq(pattern, 1, 1) = "*"
       THEN \E i \in 0..Len(key) :
              GlobMatch(SubSeq(pattern, 2, Len(pattern)), SubSeq(key, i + 1, Len(key)))
       ELSE /\ key # ""
            /\ SubSeq(key, 1, 1) = SubSeq(pattern, 1, 1)
            /\ GlobMatch(SubSeq(pattern, 2, Len(pattern)), SubSeq(key, 2, Len(key)))

RedisInit ==
  /\ redis = EmptyDict
  /\ redis_returned = [call |-> "none"]

\* RedisCacheService.set, called for tenant_id by a GuestPortalCache setter
RedisSet(key, value, tenant_id) ==
  /\ redis' = Put(redis, key, [value |-> value, tenant_id |-> tenant_id])
  /\ UNCHANGED <<redis_returned, nonRedisVars>>

\* GuestPortalCache.set_templates
SetTemplates(tenant_id, templates) ==
  RedisSet(MakeKey("templates", "all", tenant_id, <<>>), templates, tenant_id)

\* GuestPortalCache.set_portal_data
SetPortalData(portal_token, tenant_id, data) ==
  RedisSet(MakeKey("portal_data", portal_token, tenant_id, <<>>), data, tenant_id)

\* GuestPortalCache.set_template_portals (search=None: search or "none")
SetTemplatePortals(template_id, tenant_id, data, page) ==
  RedisSet(MakeKey("template_portals", template_id, tenant_id,
                   <<<<"page", page>>, <<"search", "none">>>>), data, tenant_id)

\* RedisCacheService.delete_pattern: [redis: the keys afterwards, result]
DeletePattern(r, pattern) ==
  LET keys == {k \in DOMAIN r : GlobMatch(pattern, k)}
  IN [redis |-> [k \in (DOMAIN r) \ keys |-> r[k]], result |-> Cardinality(keys)]

\* GuestPortalCache.invalidate_tenant_cache
InvalidateTenantCache(tenant_id) ==
  LET deleted == DeletePattern(redis, "*:tenant:" \o tenant_id \o "*")
  IN /\ redis' = deleted.redis
     /\ redis_returned' = [call |-> "invalidate_tenant_cache",
                           tenant_id |-> tenant_id, value |-> deleted.result]
     /\ UNCHANGED nonRedisVars

\* A key reaches the end of its TTL (SETEX) and the server drops it.
RedisExpire(key) ==
  /\ key \in DOMAIN redis
  /\ redis' = Del(redis, key)
  /\ UNCHANGED <<redis_returned, nonRedisVars>>

RedisNext ==
  \/ \E tenant_id \in RedisTenantIds : SetTemplates(tenant_id, "templates")
  \/ \E portal_token \in PortalTokens, tenant_id \in RedisTenantIds :
       SetPortalData(portal_token, tenant_id, "portal")
  \/ \E tenant_id \in RedisTenantIds : SetTemplatePortals("t1", tenant_id, "summary", "1")
  \/ \E tenant_id \in RedisTenantIds : InvalidateTenantCache(tenant_id)
  \/ \E key \in DOMAIN redis : RedisExpire(key)

(***************************************************************************)
(* Company settings endpoint (app/api/v1/company_settings.py).  The        *)
(* database is an input of each request: the company_settings row of the   *)
(* tenant exists, does not exist, or the query raises.  Of a settings      *)
(* payload the model keeps tenant_id and whether it is a row or defaults.  *)
(***************************************************************************)
\* CACHE_TTL (300 s in the source), in ticks
CACHE_TTL == 1

\* Authenticated users: tenant_id of the token (None: missing) and the tenant
\* of the user's active user_tenants row (None: no row).
Users == {"u1", "u2", "u3", "u4", "u5"}
TokenTenant(user) ==
  CASE user = "u1" -> "A" [] user = "u2" -> "B" [] OTHER -> None
UserTenants(user) ==
  CASE user \in {"u1", "u3"} -> "A" [] user \in {"u2", "u4"} -> "B" [] OTHER -> None

\* outcomes of the company_settings query
DbOutcomes == {"row", "none", "error"}

\* writes to one tenant's settings row
MaxWrites == 2
Tenants == {"A", "B"}
\* The outcomes the query for tenant_id can have, given the table.
QueryOutcomes(tenant_id) ==
  IF tenant_id \notin Tenants THEN DbOutcomes
  ELSE IF company_settings_db[tenant_id] > 0 THEN {"row", "error"}
  ELSE {"none", "error"}
\* The version of the row the query for tenant_id reads.
RowVersion(tenant_id) ==
  IF tenant_id \in Tenants THEN company_settings_db[tenant_id] ELSE 0

\* Neutral defaults ("tenant_id": None)
NeutralDefaults == [tenant_id |-> None, kind |-> "neutral"]

SettingsInit ==
  /\ company_settings_cache = EmptyDict
  /\ settings_returned = [call |-> "none"]
  /\ company_settings_db = [t \in Tenants |-> 0]

\* f"company_settings:{tenant_id}"
SettingsCacheKey(tenant_id) == "company_settings:" \o tenant_id

\* The key get_company_settings stores under: cache_key, computed from the
\* token's tenant_id before the user_tenants fallback.
StoreKey(token_tenant, tenant_id) == SettingsCacheKey(token_tenant)

\* get_company_settings
GetCompanySettings(user, db) ==
  LET cache_key == SettingsCacheKey(TokenTenant(user))
      hit == /\ cache_key \in DOMAIN company_settings_cache
             /\ company_settings_cache[cache_key].age < CACHE_TTL
      \* the cache after the expired entry, if any, is removed
      swept == Del(company_settings_cache, cache_key)
      tenant_id == IF TokenTenant(user) # None THEN TokenTenant(user)
                   ELSE UserTenants(user)
      Returned(data, from_cache) ==
        [call |-> "get_company_settings", user |-> user, data |-> data,
         from_cache |-> from_cache]
  IN /\ db \in QueryOutcomes(tenant_id)
     /\ IF hit
        THEN /\ settings_returned' =
                  Returned(company_settings_cache[cache_key].data, TRUE)
             /\ company_settings_cache' = company_settings_cache
        ELSE IF tenant_id = None \/ db = "error"
        THEN /\ settings_returned' = Returned(NeutralDefaults, FALSE)
             /\ company_settings_cache' = swept
        ELSE LET data == [tenant_id |-> tenant_id,
                          kind |-> IF db = "row" THEN "row" ELSE "defaults",
                          version |-> RowVersion(tenant_id)]
             IN /\ settings_returned' = Returned(data, FALSE)
                /\ company_settings_cache' =
                     Put(swept, StoreKey(TokenTenant(user), tenant_id),
                         [data |-> data, age |-> 0])
     /\ UNCHANGED <<company_settings_db, nonSettingsVars>>

\* tenant_id = current_user.tenant_id, or the user_tenants row when it is None
ResolveTenant(user) ==
  IF TokenTenant(user) # None THEN TokenTenant(user) ELSE UserTenants(user)

\* upsert(..., on_conflict='tenant_id') on the tenant's row
Upsert(db, tenant_id) == [db EXCEPT ![tenant_id] = @ + 1]

\* update(...).eq('tenant_id', tenant_id): changes the row if there is one
UpdateRow(db, tenant_id) ==
  [db EXCEPT ![tenant_id] = IF @ > 0 THEN @ + 1 ELSE @]

\* update_company_settings: the cache entry of the token's tenant is dropped,
\* then the row of the resolved tenant is upserted (HTTP 400 without a tenant)
UpdateCompanySettings(user) ==
  /\ ResolveTenant(user) \in Tenants => company_settings_db[ResolveTenant(user)] < MaxWrites
  /\ company_settings_cache' =
       Del(company_settings_cache, SettingsCacheKey(TokenTenant(user)))
  /\ company_settings_db' =
       IF ResolveTenant(user) \in Tenants
       THEN Upsert(company_settings_db, ResolveTenant(user))
       ELSE company_settings_db
  /\ settings_returned' = [call |-> "update_company_settings", user |-> user]
  /\ UNCHANGED nonSettingsVars

\* upload_company_logo: upserts the row of the resolved tenant
UploadCompanyLogo(user) ==
  /\ ResolveTenant(user) \in Tenants
  /\ company_settings_db[ResolveTenant(user)] < MaxWrites
  /\ company_settings_db' = Upsert(company_settings_db, ResolveTenant(user))
  /\ settings_returned' = [call |-> "upload_company_logo", user |-> user]
  /\ UNCHANGED <<company_settings_cache, nonSettingsVars>>

\* delete_company_logo: updates the row of the resolved tenant
DeleteCompanyLogo(user) ==
  /\ ResolveTenant(user) \in Tenants
  /\ company_settings_db[ResolveTenant(user)] < MaxWrites
  /\ company_settings_db' = UpdateRow(company_settings_db, ResolveTenant(user))
  /\ settings_returned' = [call |-> "delete_company_logo", user |-> user]
  /\ UNCHANGED <<company_settings_cache, nonSettingsVars>>

\* Time passes.
SettingsTick ==
  /\ company_settings_cache' =
       [k \in DOMAIN company_settings_cache |->
          [company_settings_cache[k] EXCEPT !.age = Min(@ + 1, CACHE_TTL)]]
  /\ UNCHANGED <<settings_returned, company_settings_db, nonSettingsVars>>

SettingsNext ==
  \/ \E user \in Users, db \in DbOutcomes : GetCompanySettings(user, db)
  \/ \E user \in Users : UpdateCompanySettings(user)
  \/ \E user \in Users : UploadCompanyLogo(user)
  \/ \E user \in Users : DeleteCompanyLogo(user)
  \/ SettingsTick

(***************************************************************************)
(* AsyncProcessor (app/core/async_processing.py).  The asyncio.Task of a   *)
(* submitted task is at "created" until the event loop runs its first      *)
(* step, at "awaiting" while _execute_task is suspended in func, and at    *)
(* "done" afterwards.  A cancellation delivered at "created" is thrown     *)
(* into the coroutine before its body is entered, so neither the except    *)
(* clauses nor the finally clause of _execute_task run.  func is an input: *)
(* it returns or raises, and when CancelledError is thrown into it, it     *)
(* lets it propagate, returns all the same, or raises another exception.   *)
(***************************************************************************)
\* max_user_concurrent_tasks (5 in the source), scaled
MaxUserConcurrentTasks == 2
\* max_concurrent_tasks (50 in the source), scaled
MaxConcurrentTasks == 3
\* task_cleanup_threshold (24 h in the source), in ticks
TaskCleanupThreshold == 1

TaskUsers == {"alice", "bob"}
\* uuid4 values; a new task gets one no record uses
TaskIds == {1, 2, 3}

TaskInit ==
  /\ tasks = EmptyDict
  /\ active_tasks = EmptyDict
  /\ user_task_limits = EmptyDict
  /\ task_returned = [call |-> "none"]
  /\ g_cancelled = {}
  /\ g_ended_age = EmptyDict

\* self.user_task_limits.get(user_id, 0)
UserActiveTasks(limits, user_id) ==
  IF user_id \in DOMAIN limits THEN limits[user_id] ELSE 0

\* the user limit test with > in place of >=
UserLimitReached_gt(user_active_tasks) ==
  user_active_tasks > MaxUserConcurrentTasks

\* user_active_tasks >= self.max_user_concurrent_tasks
UserLimitReached(user_active_tasks) ==
  user_active_tasks >= MaxUserConcurrentTasks

\* str(uuid.uuid4())
NewTaskId == CHOOSE id \in TaskIds \ (DOMAIN tasks \cup DOMAIN active_tasks) :
               \A k \in TaskIds \ (DOMAIN tasks \cup DOMAIN active_tasks) : id <= k

\* submit_task
SubmitTask(user_id) ==
  LET user_active_tasks == UserActiveTasks(user_task_limits, user_id)
      Returned(raised) ==
        [call |-> "submit_task", user_id |-> user_id, raised |-> raised]
  IN /\ IF UserLimitReached(user_active_tasks)
        THEN /\ task_returned' = Returned("user_limit")
             /\ UNCHANGED <<tasks, active_tasks, user_task_limits>>
        ELSE IF Cardinality(DOMAIN active_tasks) >= MaxConcurrentTasks
        THEN /\ task_returned' = Returned("system_limit")
             /\ UNCHANGED <<tasks, active_tasks, user_task_limits>>
        ELSE /\ TaskIds \ (DOMAIN tasks \cup DOMAIN active_tasks) # {}
             /\ tasks' = Put(tasks, NewTaskId,
                             [user_id |-> user_id, status |-> "pending",
                              completed_age |-> -1])
             /\ user_task_limits' = Put(user_task_limits, user_id, user_active_tasks + 1)
             /\ active_tasks' = Put(active_tasks, NewTaskId,
                                    [pc |-> "created", must_cancel |-> FALSE])
             /\ task_returned' = Returned("none")
     /\ UNCHANGED <<g_cancelled, g_ended_age, nonTaskVars>>

\* The event loop runs the first step of the task: _execute_task up to the
\* await of func, or, with a cancellation pending, nothing of its body.
TaskStart(id) ==
  /\ id \in DOMAIN active_tasks
  /\ active_tasks[id].pc = "created"
  /\ IF active_tasks[id].must_cancel
     THEN /\ active_tasks' = Put(active_tasks, id,
                                 [pc |-> "done", must_cancel |-> FALSE])
          /\ tasks' = tasks
          /\ g_ended_age' = IF id \in DOMAIN tasks THEN Put(g_ended_age, id, 0)
                            ELSE g_ended_age
     ELSE /\ active_tasks' = Put(active_tasks, id,
                                 [pc |-> "awaiting", must_cancel |-> FALSE])
          /\ tasks' = IF id \in DOMAIN tasks
                      THEN Put(tasks, id, [tasks[id] EXCEPT !.status = "in_progress"])
                      ELSE tasks
          /\ UNCHANGED g_ended_age
  /\ UNCHANGED <<user_task_limits, task_returned, g_cancelled, nonTaskVars>>

\* the finally clause of _execute_task, on user_task_limits
ReleaseUserSlot(limits, user_id) ==
  LET user_active_count == UserActiveTasks(limits, user_id)
      lowered == IF user_active_count > 0
                 THEN Put(limits, user_id, user_active_count - 1) ELSE limits
  IN IF UserActiveTasks(lowered, user_id) = 0 THEN Del(lowered, user_id) ELSE lowered

\* What the await of func gives _execute_task.
FuncOutcomes(must_cancel) ==
  IF must_cancel THEN {"cancelled", "returns", "raises"} ELSE {"returns", "raises"}

\* The rest of _execute_task: func ends (or the cancellation is thrown into
\* it), the status is set, the finally clause runs.
TaskFinish(id, outcome) ==
  /\ id \in DOMAIN active_tasks
  /\ active_tasks[id].pc = "awaiting"
  /\ outcome \in FuncOutcomes(active_tasks[id].must_cancel)
  /\ id \in DOMAIN tasks
  /\ tasks' = Put(tasks, id,
                  [tasks[id] EXCEPT
                     !.status = CASE outcome = "returns" -> "completed"
                                  [] outcome = "raises" -> "failed"
                                  [] OTHER -> "cancelled",
                     !.completed_age = 0])
  /\ active_tasks' = Del(active_tasks, id)
  /\ user_task_limits' = ReleaseUserSlot(user_task_limits, tasks[id].user_id)
  /\ g_ended_age' = Put(g_ended_age, id, 0)
  /\ UNCHANGED <<task_returned, g_cancelled, nonTaskVars>>

\* cancel_task
CancelTask(id) ==
  /\ IF id \in DOMAIN active_tasks /\ active_tasks[id].pc # "done"
     THEN /\ active_tasks' = Put(active_tasks, id,
                                 [active_tasks[id] EXCEPT !.must_cancel = TRUE])
          /\ tasks' = IF id \in DOMAIN tasks
                      THEN Put(tasks, id, [tasks[id] EXCEPT !.status = "cancelled"])
                      ELSE tasks
          /\ task_returned' = [call |-> "cancel_task", id |-> id, value |-> TRUE]
          /\ g_cancelled' = g_cancelled \cup {id}
     ELSE /\ task_returned' = [call |-> "cancel_task", id |-> id, value |-> FALSE]
          /\ UNCHANGED <<tasks, active_tasks, g_cancelled>>
  /\ UNCHANGED <<user_task_limits, g_ended_age, nonTaskVars>>

\* One pass of _cleanup_old_tasks
CleanupOldTasks ==
  LET tasks_to_remove ==
        {id \in DOMAIN tasks :
           /\ tasks[id].status \in {"completed", "failed", "cancelled"}
           /\ tasks[id].completed_age # -1
           /\ tasks[id].completed_age > TaskCleanupThreshold}
  IN /\ tasks' = [id \in (DOMAIN tasks) \ tasks_to_remove |-> tasks[id]]
     /\ active_tasks' = [id \in (DOMAIN active_tasks) \ tasks_to_remove |->
                           active_tasks[id]]
     /\ g_cancelled' = g_cancelled \ tasks_to_remove
     /\ g_ended_age' = Restrict(g_ended_age, DOMAIN g_ended_age \ tasks_to_remove)
     /\ UNCHANGED <<user_task_limits, task_returned, nonTaskVars>>

\* Time passes.
TaskTick ==
  /\ tasks' = [id \in DOMAIN tasks |->
                 [tasks[id] EXCEPT !.completed_age =
                    IF @ = -1 THEN -1 ELSE Min(@ + 1, TaskCleanupThreshold + 1)]]
  /\ g_ended_age' = [id \in DOMAIN g_ended_age |->
                       Min(g_ended_age[id] + 1, TaskCleanupThreshold + 1)]
  /\ UNCHANGED <<active_tasks, user_task_limits, task_returned, g_cancelled,
                 nonTaskVars>>

TaskNext ==
  \/ \E user_id \in TaskUsers : SubmitTask(user_id)
  \/ \E id \in TaskIds : TaskStart(id)
  \/ \E id \in TaskIds, outcome \in {"cancelled", "returns", "raises"} :
       TaskFinish(id, outcome)
  \/ \E id \in TaskIds : CancelTask(id)
  \/ CleanupOldTasks
  \/ TaskTick

(***************************************************************************)
(* users_lightning: the per-tenant user-list cache in Redis.  One tenant;  *)
(* of the user rows the model keeps a version number, which every user     *)
(* write raises.  Each step is one round trip to the database or to Redis; *)
(* the handlers suspend between them (get_users_optimized_query awaits     *)
(* its batch queries, every redis_client call is awaited).                 *)
(***************************************************************************)
\* user writes in one behaviour
MaxUserWrites == 2
ListRequests == {"r1", "r2"}

UsersInit ==
  /\ users_db = 0
  /\ users_cache = <<>>
  /\ list_pc = [r \in ListRequests |-> "idle"]
  /\ list_data = [r \in ListRequests |-> 0]
  /\ write_pc = "idle"
  /\ users_returned = [call |-> "none"]
  /\ g_write_done = 0

\* list_users_lightning up to the database read: a cache hit returns the
\* entry; on a miss, or with force_refresh, users_data is read from the database
ListUsersFetch(r, force_refresh) ==
  /\ list_pc[r] = "idle"
  /\ IF ~force_refresh /\ users_cache # <<>>
     THEN /\ users_returned' = [call |-> "list_users_lightning", request |-> r,
                                cache_hit |-> TRUE, users |-> users_cache[1]]
          /\ UNCHANGED <<list_pc, list_data>>
     ELSE /\ list_data' = [list_data EXCEPT ![r] = users_db]
          /\ list_pc' = [list_pc EXCEPT ![r] = "fetched"]
          /\ UNCHANGED users_returned
  /\ UNCHANGED <<users_db, users_cache, write_pc, g_write_done, nonUsersVars>>

\* await redis_client.set(cache_key, cache_data, ttl=300);
\* background_tasks.add_task(refresh_cache, tenant_id); return
ListUsersStore(r) ==
  /\ list_pc[r] = "fetched"
  /\ users_cache' = <<list_data[r]>>
  /\ list_pc' = [list_pc EXCEPT ![r] = "scheduled"]
  /\ users_returned' = [call |-> "list_users_lightning", request |-> r,
                        cache_hit |-> FALSE, users |-> list_data[r]]
  /\ UNCHANGED <<users_db, list_data, write_pc, g_write_done, nonUsersVars>>

\* refresh_cache: users_data = await get_users_single_query(tenant_id)
RefreshCacheFetch(r) ==
  /\ list_pc[r] = "scheduled"
  /\ list_data' = [list_data EXCEPT ![r] = users_db]
  /\ list_pc' = [list_pc EXCEPT ![r] = "refreshing"]
  /\ UNCHANGED <<users_db, users_cache, write_pc, users_returned, g_write_done,
                 nonUsersVars>>

\* refresh_cache: await redis_client.set(cache_key, cache_data, ttl=600)
RefreshCacheStore(r) ==
  /\ list_pc[r] = "refreshing"
  /\ users_cache' = <<list_data[r]>>
  /\ list_pc' = [list_pc EXCEPT ![r] = "idle"]
  /\ UNCHANGED <<users_db, list_data, write_pc, users_returned, g_write_done,
                 nonUsersVars>>

\* create_user: the rows of the new user are inserted
CreateUserInsert ==
  /\ write_pc = "idle"
  /\ users_db < MaxUserWrites
  /\ users_db' = users_db + 1
  /\ write_pc' = "inserted"
  /\ UNCHANGED <<users_cache, list_pc, list_data, users_returned, g_write_done,
                 nonUsersVars>>

\* create_user: await redis_client.delete(cache_key); return
CreateUserClearCache ==
  /\ write_pc = "inserted"
  /\ users_cache' = <<>>
  /\ write_pc' = "idle"
  /\ g_write_done' = users_db
  /\ UNCHANGED <<users_db, list_pc, list_data, users_returned, nonUsersVars>>

\* The Redis entry reaches its ttl.
UsersCacheExpire ==
  /\ users_cache # <<>>
  /\ users_cache' = <<>>
  /\ UNCHANGED <<users_db, list_pc, list_data, write_pc, users_returned,
                 g_write_done, nonUsersVars>>

UsersNext ==
  \/ \E r \in ListRequests, force_refresh \in BOOLEAN : ListUsersFetch(r, force_refresh)
  \/ \E r \in ListRequests : ListUsersStore(r)
  \/ \E r \in ListRequests : RefreshCacheFetch(r)
  \/ \E r \in ListRequests : RefreshCacheStore(r)
  \/ CreateUserInsert
  \/ CreateUserClearCache
  \/ UsersCacheExpire

(***************************************************************************)
(* cache_response: the wrapper around one decorated function.  The calls   *)
(* of the wrapper follow one another; Redis may fail on any command.       *)
(***************************************************************************)
\* ttl of the decorator (300 s in the source), in ticks
ResponseTtl == 2

\* The keys cache_key_func yields for the arguments of the calls.
ResponseKeys == {"k1", "k2"}

\* What func returns: a non-empty list, an empty list, or None.
FuncResults == {"rows", "empty", None}

\* json.dumps(value, default=str)
JsonDumps(value) ==
  CASE value = "rows" -> "[1]"
    [] value = "empty" -> "[]"
    [] OTHER -> "null"

\* json.loads(text)
JsonLoads(text) ==
  CASE text = "[1]" -> "rows"
    [] text = "[]" -> "empty"
    [] OTHER -> None

\* bool(value) of a Python object: [] and None are falsy.
Truthy(value) == value = "rows"

\* bool(text) of what redis_client.get returned: a non-empty string.
TruthyText(text) == Len(text) > 0

\* RedisCacheService.get: the value it returns.  ok is FALSE when there is no
\* redis_client or the command raises.
RedisCacheService_get(store, key, ok) ==
  IF ~ok THEN None
  ELSE IF key \in DOMAIN store /\ TruthyText(store[key].value)
       THEN JsonLoads(store[key].value)
       ELSE None

\* RedisCacheService.set: the keys afterwards.
RedisCacheService_set(store, key, value, ok) ==
  IF ~ok THEN store
  ELSE [k \in (DOMAIN store) \cup {key} |->
          IF k = key THEN [value |-> JsonDumps(value), age |-> 0] ELSE store[k]]

DecoratorInit ==
  /\ response_cache = [k \in {} |-> k]
  /\ w_pc = "idle"
  /\ w_key = None
  /\ func_calls = 0
  /\ w_result = None
  /\ w_returned = [kind |-> "none", value |-> None]
  /\ g_stored = FALSE

\* wrapper(*args, **kwargs) is called: `if not cache_instance` and
\* cache_key = cache_key_func(*args, **kwargs)
WrapperCall(key, cache_instance) ==
  /\ w_pc = "idle"
  /\ w_key' = key
  /\ func_calls' = 0
  /\ w_result' = None
  /\ g_stored' = FALSE
  /\ w_returned' = [kind |-> "none", value |-> None]
  /\ w_pc' = IF ~cache_instance THEN "direct" ELSE "get"
  /\ UNCHANGED <<response_cache, nonDecoratorVars>>

\* cached_result = await cache_instance.cache.get(cache_key); if cached_result
WrapperGet(ok) ==
  /\ w_pc = "get"
  /\ LET cached_result == RedisCacheService_get(response_cache, w_key, ok)
     IN IF Truthy(cached_result)
        THEN /\ w_returned' = [kind |-> "returned", value |-> cached_result]
             /\ w_pc' = "idle"
        ELSE /\ w_pc' = "func"
             /\ UNCHANGED w_returned
  /\ g_stored' = (ok /\ w_key \in DOMAIN response_cache)
  /\ UNCHANGED <<response_cache, w_key, func_calls, w_result, nonDecoratorVars>>

\* await func(*args, **kwargs) ends, at one of its three call sites: in the
\* try block, in the except block, or without a cache_instance.
FuncReturns(value) ==
  /\ w_pc \in {"func", "except", "direct"}
  /\ func_calls' = func_calls + 1
  /\ IF w_pc = "func"
     THEN /\ w_result' = value
          /\ w_pc' = "set"
          /\ UNCHANGED w_returned
     ELSE /\ w_returned' = [kind |-> "returned", value |-> value]
          /\ w_pc' = "idle"
          /\ UNCHANGED w_result
  /\ UNCHANGED <<response_cache, w_key, g_stored, nonDecoratorVars>>

\* func raises an Exception: in the try block `except Exception` catches it.
FuncRaises ==
  /\ w_pc \in {"func", "except", "direct"}
  /\ func_calls' = func_calls + 1
  /\ IF w_pc = "func"
     THEN /\ w_pc' = "except"
          /\ UNCHANGED w_returned
     ELSE /\ w_returned' = [kind |-> "raised", value |-> None]
          /\ w_pc' = "idle"
  /\ UNCHANGED <<response_cache, w_key, w_result, g_stored, nonDecoratorVars>>

\* await cache_instance.cache.set(cache_key, result, ttl); return result
WrapperSet(ok) ==
  /\ w_pc = "set"
  /\ response_cache' = RedisCacheService_set(response_cache, w_key, w_result, ok)
  /\ w_returned' = [kind |-> "returned", value |-> w_result]
  /\ w_pc' = "idle"
  /\ UNCHANGED <<w_key, func_calls, w_result, g_stored, nonDecoratorVars>>

\* Time passes; Redis drops the keys whose ttl has run out.
DecoratorTick ==
  /\ response_cache # [k \in {} |-> k]
  /\ response_cache' =
       [k \in {x \in DOMAIN response_cache :
                 response_cache[x].age + 1 < ResponseTtl} |->
          [response_cache[k] EXCEPT !.age = @ + 1]]
  /\ UNCHANGED <<w_pc, w_key, func_calls, w_result, w_returned, g_stored,
                 nonDecoratorVars>>

DecoratorNext ==
  \/ \E key \in ResponseKeys, cache_instance \in BOOLEAN :
       WrapperCall(key, cache_instance)
  \/ \E ok \in BOOLEAN : WrapperGet(ok)
  \/ \E value \in FuncResults : FuncReturns(value)
  \/ FuncRaises
  \/ \E ok \in BOOLEAN : WrapperSet(ok)
  \/ DecoratorTick

(***************************************************************************)
(* Specifications: one per component; the other components stay as built.  *)
(***************************************************************************)
Init ==
  /\ PoolInit /\ DegradedInit /\ TrackerInit /\ FallbackInit
  /\ TenantInit /\ RedisInit /\ SettingsInit /\ TaskInit /\ UsersInit
  /\ DecoratorInit

PoolSpec == Init /\ [][PoolNext]_vars

InitSpec == Init /\ [][InitNext]_vars

DegradedSpec == Init /\ [][DegradedNext]_vars

TrackerSpec == Init /\ [][TrackerNext]_vars

TrackerCallsSpec == Init /\ [][TrackerCallsNext]_vars

FallbackSpec == Init /\ [][FallbackNext]_vars

TenantSpec == Init /\ [][TenantNext]_vars

RedisSpec == Init /\ [][RedisNext]_vars

SettingsSpec == Init /\ [][SettingsNext]_vars

TaskSpec == Init /\ [][TaskNext]_vars

UsersSpec == Init /\ [][UsersNext]_vars

DecoratorSpec == Init /\ [][DecoratorNext]_vars

\* Scheduling of the event loop: a resumable coroutine is resumed, a timer
\* fires, the background loops run, a caller's body ends.  No fairness on
\* GetClient: new requests need not arrive.
FairPoolSpec ==
  /\ PoolSpec
  /\ WF_vars(PoolGet)
  /\ WF_vars(PoolGetTimeout)
  /\ WF_vars(\E h \in Handles, o \in Outcomes : ScopeExit(h, o))
  /\ WF_vars(\E h \in Handles : PutResume(h))
  /\ WF_vars(CheckPoolHealth)
  /\ WF_vars(HealthResume)
  /\ WF_vars(CleanupStaleConnections)

(***************************************************************************)
(* Properties of the pool and its circuit breaker                          *)
(***************************************************************************)
\* The breaker is open and less than the cooldown has passed since it went
\* from closed to open.
InWindow == circuit_breaker_open /\ g_since_open < CircuitBreakerTimeout

\* A get_client() call of this step is answered with the degraded client:
\* it does not join the frames that go on to the live pool.
YieldsDegraded == waiting' = waiting /\ circuit_breaker_open'

C2_LiveHandlesBounded ==
  Len(pool) + Cardinality(active_clients) <= MaxConnections

\* C3 (as stated): inside the cooldown window the breaker is not reset to
\* closed, no frame is given a live client, and every get_client() call is
\* answered with the degraded client.
C3_NoLiveClientInWindow ==
  [][InWindow => /\ circuit_breaker_open'
                 /\ active_clients' \subseteq active_clients
                 /\ (GetClient => YieldsDegraded)]_vars

\* C3 (amended): inside the cooldown window the breaker is not reset to closed
\* and every get_client() call made inside the window is answered with the
\* degraded client.
C3_NoLiveCallInWindow ==
  [][InWindow => /\ circuit_breaker_open'
                 /\ (GetClient => YieldsDegraded)]_vars

\* C3 witness: a get_client() call was made after the breaker opened and the
\* window is still running.
C3_Witness == InWindow /\ ~g_tripped

\* C4: a successful completion sets the consecutive-failure counter to 0, a
\* failed one adds exactly 1, and the breaker goes from closed to open only when
\* CircuitBreakerThreshold failures have completed since the last success.
C4_CounterResetAndIncrement ==
  [][/\ \A h \in Handles :
          /\ ScopeExit(h, "ok") => failed_operations_count' = 0
          /\ ScopeExit(h, "error") =>
               failed_operations_count' = failed_operations_count + 1
     /\ (~circuit_breaker_open /\ circuit_breaker_open')
          => g_streak' >= CircuitBreakerThreshold]_vars

\* C4 witness: a success completed while failures were counted: the breaker they
\* opened is still open and the counter is back at 0.
C4_Witness == circuit_breaker_open /\ failed_operations_count = 0

\* C7: a release that has started completes: the handle it puts back does not
\* stay suspended in _pool.put() for ever.
C7_ReleaseCompletes ==
  \A h \in Handles : (h \in putting) ~> (h \notin putting)

\* Handles that exist when a wait on the empty pool times out.
ExistingClients == Range(pool) \cup active_clients \cup putting

\* C8: when the wait on the empty pool times out with max_connections clients
\* checked out, the call fails with the pool-exhausted error and creates no
\* client; with fewer clients in existence it creates exactly one.
C8_ExhaustedPoolFails ==
  [][PoolGetTimeout =>
       IF Cardinality(active_clients) >= MaxConnections
       THEN /\ clients' = clients
            /\ active_clients' = active_clients
            /\ failed_operations_count' = failed_operations_count + 1
       ELSE Cardinality(ExistingClients) < MaxConnections
              => Cardinality(active_clients') = Cardinality(active_clients) + 1]_vars

(***************************************************************************)
(* Properties of the degraded client                                       *)
(***************************************************************************)
WriteMethods == {"insert", "update", "upsert", "delete"}
FilterMethods == {"eq", "neq", "gt", "gte", "lt", "lte", "in_", "is_"}

\* The query of the degraded client has ended: execute() returned or a call of
\* the chain raised.
QueryEnded == d_status \in {"returned", "raised"}

\* The payload of the response carries fallback = true.
FlaggedFallback(payload) == "fallback" \in DOMAIN payload /\ payload["fallback"] = TRUE

\* A table chain that contains a write.
IsWriteChain == d_kind = "table" /\ d_calls \cap WriteMethods # {}

\* A select with filters, limit and order and no write, or an rpc.
IsReadChain ==
  \/ d_kind = "rpc"
  \/ /\ d_kind = "table"
     /\ "select" \in d_calls
     /\ d_calls \subseteq {"select", "limit", "order"} \cup FilterMethods

\* C5: in degraded mode a table chain that contains a write (insert, update,
\* upsert or delete) ends with execute() returning one payload that carries an
\* error and fallback = true; it does not raise, and execute() leaves the
\* fallback cache as it was.  (The degraded table holds no reference to the
\* backend, so there is no backend call to observe.)
C5_DegradedWriteRejected ==
  /\ [](IsWriteChain /\ QueryEnded =>
          /\ d_status = "returned"
          /\ Len(d_response) = 1
          /\ Get(d_response[1], "error") \notin {None, ""}
          /\ FlaggedFallback(d_response[1]))
  /\ [][IsWriteChain /\ Table_execute => cache' = cache]_vars

\* C6: in degraded mode a read chain (select with any filters, limit, order) or
\* an rpc ends with execute() returning a payload that carries fallback = true,
\* from the cache or synthesized; it does not raise.
C6_DegradedReadFlagged ==
  IsReadChain /\ QueryEnded =>
    /\ d_status = "returned"
    /\ Len(d_response) = 1
    /\ FlaggedFallback(d_response[1])

(***************************************************************************)
(* Properties of the connection tracker and of execute()                   *)
(***************************************************************************)
\* C9: an execute() call whose backend fails fewer than max_retries attempts
\* and then succeeds ends with the successful result; its caller sees no error.
C9_TransientFailuresHidden ==
  \A op \in ExecOps :
    exec_pc[op] = "done" /\ backend_script[op] < MaxRetries
      => exec_outcome[op] = "result"

\* C10: record_failure called with an operation id and a classified error type
\* does not raise, adds 1 to failed_connections and adds 1 to the retry count
\* of that operation.
C10_RecordFailureCounts ==
  [][\A op \in OtherOps, error_type \in ErrorTypes \ {None} :
       RecordFailureCall(<<op, error_type>>) =>
         /\ tracker_raised' = "none"
         /\ failed_connections' = failed_connections + 1
         /\ RetryCount(retry_counts', op) = RetryCount(retry_counts, op) + 1]_vars

AllOps == OtherOps \cup ExecOps

\* C11: for every operation id and every error type, should_retry returns
\* FALSE when the operation's recorded retry count has reached max_retries and
\* TRUE when it is below max_retries.
C11_ShouldRetryByCount ==
  [][\A op \in AllOps, error_type \in ErrorTypes :
       ShouldRetryCall(op, error_type) =>
         tracker_returned'.value = (RetryCount(retry_counts, op) < MaxRetries)]_vars

\* C11 witness: should_retry was called for a connection error on an operation
\* whose retry count had reached max_retries, and it returned FALSE.
C11_Witness ==
  /\ tracker_returned.call = "should_retry"
  /\ tracker_returned.error_type = "connection"
  /\ RetryCount(retry_counts, tracker_returned.operation_id) >= MaxRetries
  /\ tracker_returned.value = FALSE

\* C12: get_retry_delay returns min(base_delay * 2^retry_count, 30); the value
\* never exceeds 30 and does not decrease when the operation's retry count grows.
C12_RetryDelayCappedMonotone ==
  /\ [][\A op \in AllOps :
          GetRetryDelayCall(op) =>
            /\ tracker_returned'.value =
                 Min(BaseDelay * (2 ^ RetryCount(retry_counts, op)), DelayCap)
            /\ tracker_returned'.value <= DelayCap]_vars
  /\ [][\A op \in AllOps :
          RetryCount(retry_counts', op) >= RetryCount(retry_counts, op) =>
            GetRetryDelay(retry_counts', op) >= GetRetryDelay(retry_counts, op)]_vars

\* C12 witness: get_retry_delay was called for an operation whose uncapped
\* delay is above the cap, and returned the cap.
C12_Witness ==
  /\ tracker_returned.call = "get_retry_delay"
  /\ BaseDelay * (2 ^ RetryCount(retry_counts, tracker_returned.operation_id)) > DelayCap
  /\ tracker_returned.value = DelayCap

\* C13: no entry of the fallback cache holds a response with an error marker;
\* cache_response of an error-flagged response leaves the cache as it was, and
\* when the key had no entry before, the get_cached_response that follows
\* returns None.
C13_NoErrorResponseCached ==
  /\ [](\A k \in DOMAIN cache : ~ErrorFlagged(cache[k].data))
  /\ [][\A k \in FallbackKeys, response \in FallbackResponses :
          CacheResponseCall(k, response) /\ ErrorFlagged(response) =>
            cache' = cache]_vars
  /\ [][\A k \in FallbackKeys :
          /\ fallback_returned.call = "cache_response"
          /\ fallback_returned.cache_key = k
          /\ ErrorFlagged(fallback_returned.response)
          /\ ~fallback_returned.prior
          /\ GetCachedResponseCall(k)
          => ~fallback_returned'.found]_vars

\* C13 witness: cache_response was called with an error-flagged response on a
\* key without an entry while the cache held another entry, and the key still
\* has no entry.
C13_Witness ==
  /\ fallback_returned.call = "cache_response"
  /\ ErrorFlagged(fallback_returned.response)
  /\ ~fallback_returned.prior
  /\ fallback_returned.cache_key \notin DOMAIN cache
  /\ cache # EmptyDict

\* C14: get_cached_response on a key that has an entry returns the entry,
\* marked _fallback_cached and _cached_at, whatever the entry's age, and the
\* entry stays in the cache.
C14_ExpiredEntryStillReturned ==
  [][\A k \in FallbackKeys :
       GetCachedResponseCall(k) /\ k \in DOMAIN cache =>
         /\ fallback_returned'.found
         /\ Get(fallback_returned'.data, "_fallback_cached") = TRUE
         /\ "_cached_at" \in DOMAIN fallback_returned'.data
         /\ k \in DOMAIN cache']_vars

\* C15: TenantCache.get(key) returns the value of the latest set(key, v, ttl)
\* while the time is before set-time + ttl, and returns None at any time after
\* that expiry; it never returns an entry whose expiry has passed, and an
\* expired entry it meets is evicted.
C15_GetHonoursExpiry ==
  [][\A key \in TenantKeys :
       TenantGet(key) =>
         /\ (key \in DOMAIN g_tenant_set /\ g_tenant_set[key].left > 0 =>
               tenant_returned'.value = g_tenant_set[key].value)
         /\ (key \in DOMAIN g_tenant_set /\ g_tenant_set[key].left < 0 =>
               tenant_returned'.value = None)
         /\ (key \in DOMAIN tenant_cache /\ tenant_cache[key].left < 0 =>
               tenant_returned'.value = None /\ key \notin DOMAIN tenant_cache')]_vars

\* C15 witness: get met an entry whose expiry had passed, evicted it and
\* returned None.
C15_Witness ==
  /\ tenant_returned.call = "get"
  /\ tenant_returned.value = None
  /\ tenant_returned.key \in DOMAIN g_tenant_set
  /\ g_tenant_set[tenant_returned.key].left < 0
  /\ tenant_returned.key \notin DOMAIN tenant_cache

\* C16: invalidate_tenant_cache(T) deletes every cached key that was created
\* for tenant T and deletes no key created for another tenant.
C16_InvalidationTenantIsolated ==
  [][\A t \in RedisTenantIds :
       InvalidateTenantCache(t) =>
         \A k \in DOMAIN redis :
           /\ redis[k].tenant_id = t => k \notin DOMAIN redis'
           /\ redis[k].tenant_id # t => k \in DOMAIN redis']_vars

\* C17: a company-settings entry served from the cache belongs to the caller's
\* tenant, also for callers whose tenant id is missing from the token and is
\* resolved through user_tenants.
C17_CachedSettingsOfCallersTenant ==
  [][\A user \in Users, db \in DbOutcomes :
       GetCompanySettings(user, db) /\ settings_returned'.from_cache =>
         settings_returned'.data.tenant_id = UserTenants(user)]_vars

\* The tasks of user_id whose _execute_task coroutine has not ended.
ActiveTasksOf(user_id) ==
  {id \in DOMAIN active_tasks :
     /\ active_tasks[id].pc # "done"
     /\ id \in DOMAIN tasks
     /\ tasks[id].user_id = user_id}

\* C18: submit_task raises the limit error, creating no task record and
\* scheduling no work, whenever the owner already has max_user_concurrent_tasks
\* active tasks; no user ever has more than that many tasks active at once.
C18_UserLimitEnforced ==
  /\ [](\A user_id \in TaskUsers :
          Cardinality(ActiveTasksOf(user_id)) <= MaxUserConcurrentTasks)
  /\ [][\A user_id \in TaskUsers :
          /\ SubmitTask(user_id)
          /\ Cardinality(ActiveTasksOf(user_id)) >= MaxUserConcurrentTasks
          => /\ task_returned'.raised = "user_limit"
             /\ tasks' = tasks
             /\ active_tasks' = active_tasks]_vars

\* C18 witness: submit_task was rejected with the user limit error for a user
\* holding max_user_concurrent_tasks active tasks.
C18_Witness ==
  /\ task_returned.call = "submit_task"
  /\ task_returned.raised = "user_limit"
  /\ Cardinality(ActiveTasksOf(task_returned.user_id)) = MaxUserConcurrentTasks

\* C19: once cancel_task(id) has returned True, the status the task ends with
\* (its _execute_task coroutine over) is cancelled, not failed or completed.
C19_CancelledTaskEndsCancelled ==
  \A id \in g_cancelled :
    /\ id \in DOMAIN tasks
    /\ (id \notin DOMAIN active_tasks \/ active_tasks[id].pc = "done")
    => tasks[id].status = "cancelled"

\* C20: initialize() is idempotent: the first call puts min(10, max_connections)
\* new clients into the pool and starts the two background loops; a later call
\* on the initialized pool creates no client, leaves the pool, the metrics and
\* every other field as they are and starts no background loop.
C20_InitializeIdempotent ==
  [][InitializeCall =>
       IF initialized
       THEN UNCHANGED <<poolVars, background_tasks>>
       ELSE /\ initialized'
            /\ Len(pool') = Min(InitialBatch, MaxConnections)
            /\ Cardinality(Range(pool')) = Len(pool')
            /\ clients' = Range(pool')
            /\ background_tasks' = 2]_vars

\* C20 witness: initialize() has been called again on the initialized pool,
\* while a client was out of the pool.
C20_Witness ==
  /\ initialized
  /\ initialize_calls = 2
  /\ background_tasks = 2
  /\ active_clients # {}

\* C21: the breaker stays open for at most the cooldown: a get_client() call
\* made when the cooldown or more has passed since the breaker went from
\* closed to open resets it to closed with the failure counter at 0 and goes
\* on to the live pool, whatever operations in flight have completed since.
C21_OpenAtMostCooldown ==
  [][(GetClient /\ circuit_breaker_open /\ g_since_open >= CircuitBreakerTimeout)
       => /\ ~circuit_breaker_open'
          /\ failed_operations_count' = 0
          /\ waiting' = waiting + 1]_vars

\* C22: after _cleanup_stale_connections has run, no idle client older than the
\* recycle interval is left in the pool queue, and no checked-out client has
\* been removed from the pool's records.
C22_CleanupRemovesStaleIdle ==
  [][CleanupStaleConnections =>
       /\ \A h \in Range(pool') :
            ~(h \in DOMAIN client_age /\ client_age[h] > RecycleInterval)
       /\ active_clients \cap clients \subseteq clients'
       /\ active_clients \cap DOMAIN client_age \subseteq DOMAIN client_age']_vars

C24_ExecuteEndsWithBackendOutcome ==
  \A op \in ExecOps :
    /\ exec_attempts[op] <= MaxRetries
    /\ exec_pc[op] = "done" =>
         /\ exec_outcome[op] \in {"result", "backend error"}
         /\ exec_attempts[op] <= backend_script[op] =>
              exec_outcome[op] = "backend error"

\* C25: a degraded-mode select returns exactly the data of the most recent
\* successful live select on the same table with the same query parameters,
\* and a response it serves from the cache was captured by a live select on
\* that table with those parameters, never by one with other filters.
C25_DegradedSelectServesLatestLive ==
  [][(/\ Table_execute
      /\ "select" \in DOMAIN query_params
      /\ \A key \in {"insert", "update", "delete"} : key \notin DOMAIN query_params)
       => LET cache_key == GenerateCacheKey(table_name, query_params)
              served == d_response'
          IN /\ (cache_key \in DOMAIN g_live /\ g_live[cache_key].untracked = {})
                  => /\ Len(served) = 1
                     /\ "data" \in DOMAIN served[1]
                     /\ served[1]["data"] = g_live[cache_key].data
             /\ (Len(served) = 1 /\ "_fallback_cached" \in DOMAIN served[1])
                  => /\ cache_key \in DOMAIN g_live
                     /\ g_live[cache_key].untracked = {}]_vars

\* C26: every method of the live surface is accepted by the degraded client:
\* chaining a method that is valid on the live table onto a degraded table
\* query does not raise.
C26_LiveSurfaceAccepted ==
  [][\A method \in ChainMethods :
       (/\ d_status = "building"
        /\ d_kind = "table"
        /\ method \in d_calls' \ d_calls)
       => d_status' = "building"]_vars

\* C27: every response that execute() returns for a read in degraded mode (a
\* table query without a write, or an rpc) carries a retry_after hint, whether
\* it is a synthesized default or comes from the fallback cache.
C27_DegradedReadCarriesRetryAfter ==
  (d_status = "returned" /\ ~IsWriteChain) =>
    /\ Len(d_response) = 1
    /\ "retry_after" \in DOMAIN d_response[1]

\* C28: a get_company_settings answered from the cache returns the current
\* version of the settings row of the tenant the entry is about: every
\* completed write (update_company_settings, upload_company_logo,
\* delete_company_logo) has invalidated the entry read before it.
C28_WriteInvalidatesCachedSettings ==
  [][\A user \in Users, db \in DbOutcomes :
       (/\ GetCompanySettings(user, db)
        /\ settings_returned'.from_cache
        /\ settings_returned'.data.tenant_id \in Tenants)
       => settings_returned'.data.version =
            company_settings_db[settings_returned'.data.tenant_id]]_vars

\* C29: once a user write has completed and deleted the tenant's cache key, the
\* key never holds an entry built from user rows read before that write: a
\* concurrent list_users_lightning request or refresh_cache task that read the
\* old rows does not store them afterwards.
C29_NoStaleRepopulation ==
  users_cache # <<>> => users_cache[1] >= g_write_done

\* C30: a failure or a success recorded for one operation id changes neither
\* the retry count, nor the retry eligibility, nor the backoff delay of another
\* operation id; should_retry and get_retry_delay for an operation answer from
\* that operation's own count.
C30_OperationsIsolated ==
  /\ [][\A op \in ConcurrentOps :
          (RecordFailureCall(<<op>>) \/ RecordSuccessCall(op)) =>
            \A other \in ConcurrentOps \ {op} :
              /\ RetryCount(retry_counts', other) = RetryCount(retry_counts, other)
              /\ \A error_type \in ErrorTypes :
                   ShouldRetry(retry_counts', other, error_type)
                     = ShouldRetry(retry_counts, other, error_type)
              /\ GetRetryDelay(retry_counts', other)
                   = GetRetryDelay(retry_counts, other)]_vars
  /\ [][\A op \in ConcurrentOps, error_type \in ErrorTypes :
          ShouldRetryCall(op, error_type) =>
            tracker_returned'.value =
              ShouldRetry(Restrict(retry_counts, {op}), op, error_type)]_vars
  /\ [][\A op \in ConcurrentOps :
          GetRetryDelayCall(op) =>
            tracker_returned'.value = GetRetryDelay(Restrict(retry_counts, {op}), op)]_vars

\* C30 witness: should_retry has answered TRUE for an operation with one
\* recorded failure while the other operation has used up its retries.
C30_Witness ==
  \E op \in ConcurrentOps, other \in ConcurrentOps :
    /\ other # op
    /\ RetryCount(retry_counts, other) >= MaxRetries
    /\ RetryCount(retry_counts, op) = 1
    /\ tracker_returned.call = "should_retry"
    /\ tracker_returned.operation_id = op
    /\ tracker_returned.value = TRUE

\* C31: cleanup_old_operations removes the retry state of every operation
\* whose tracking is older than 5 minutes: after it has run, retry_counts holds
\* no operation whose retry state was last written longer ago than that.
C31_CleanupRemovesOldOperations ==
  [][CleanupOldOperations =>
       \A op \in DOMAIN retry_counts :
         g_tracked_age[op] > OperationTtl => op \notin DOMAIN retry_counts']_vars

\* C32: a pass of the background sweep removes every task whose status is
\* completed, failed or cancelled and whose execution ended longer ago than the
\* cleanup threshold, and removes no task that is pending or in progress.
C32_SweepPurgesFinishedTasks ==
  [][CleanupOldTasks =>
       \A id \in DOMAIN tasks :
         /\ (/\ tasks[id].status \in {"completed", "failed", "cancelled"}
             /\ id \in DOMAIN g_ended_age
             /\ g_ended_age[id] > TaskCleanupThreshold)
              => id \notin DOMAIN tasks'
         /\ tasks[id].status \in {"pending", "in_progress"}
              => id \in DOMAIN tasks']_vars

\* C33: the per-user counter equals the number of that user's tasks in the
\* active set, and every task whose status is terminal and whose execution has
\* ended has left the active set and holds no slot of its owner: the counter
\* counts only tasks whose execution has not ended.
C33_CounterMatchesActiveSet ==
  /\ \A user_id \in TaskUsers :
       /\ UserActiveTasks(user_task_limits, user_id) =
            Cardinality({id \in DOMAIN active_tasks :
                           id \in DOMAIN tasks /\ tasks[id].user_id = user_id})
       /\ UserActiveTasks(user_task_limits, user_id) =
            Cardinality(ActiveTasksOf(user_id))
  /\ \A id \in DOMAIN g_ended_age :
       (id \in DOMAIN tasks
        /\ tasks[id].status \in {"completed", "failed", "cancelled"})
         => id \notin DOMAIN active_tasks

\* C34: a task record is changed only by the task's own execution coroutine,
\* and a status that is completed, failed or cancelled never changes again.
C34_TerminalStatusStable ==
  [][\A id \in DOMAIN tasks \cap DOMAIN tasks' :
       /\ tasks'[id].status # tasks[id].status
            => \/ TaskStart(id)
               \/ \E outcome \in {"cancelled", "returns", "raises"} :
                    TaskFinish(id, outcome)
       /\ tasks[id].status \in {"completed", "failed", "cancelled"}
            => tasks'[id].status = tasks[id].status]_vars

\* C35: an acquisition that fails because the pool is exhausted (the wait on
\* the empty pool timed out with max_connections clients recorded) does not
\* raise the breaker's consecutive-failure counter and leaves the breaker as
\* it is.
C35_ExhaustionNotCounted ==
  [][(PoolGetTimeout /\ ~(Cardinality(clients) < MaxConnections)) =>
       /\ failed_operations_count' = failed_operations_count
       /\ circuit_breaker_open' = circuit_breaker_open]_vars

\* C36: whenever the breaker is closed the consecutive-failure counter is
\* below the threshold; the counter is at or above the threshold only in
\* states where the breaker is open.
C36_ClosedBelowThreshold ==
  /\ ~circuit_breaker_open => failed_operations_count < CircuitBreakerThreshold
  /\ failed_operations_count >= CircuitBreakerThreshold => circuit_breaker_open

\* C36 witness: the breaker has been open, has closed again after the
\* cooldown, and one failure short of the threshold has been counted since,
\* while a client is checked out.
C36_Witness ==
  /\ ~circuit_breaker_open
  /\ g_since_open > 0
  /\ failed_operations_count = CircuitBreakerThreshold - 1
  /\ active_clients # {}

\* No get_client frame is between two of its steps and no _pool.put() is
\* suspended.
PoolQuiescent == waiting = 0 /\ putting = {} /\ health_put = 0

\* C37: in every state where no acquire or release is half done the counts of
\* get_pool_status are consistent: total_connections = available_connections +
\* active_connections, and active_connections is the number of clients checked
\* out and is never negative.
C37_StatusCountsConsistent ==
  PoolQuiescent =>
    LET status == GetPoolStatus
    IN /\ status.total_connections =
            status.available_connections + status.active_connections
       /\ status.active_connections = Cardinality(active_clients)
       /\ status.active_connections >= 0

\* C38: the wrapped function is invoked at most once per call of the wrapper,
\* also when it raises, and not at all when the call's cache read found a
\* value stored under the key by an earlier call and not yet expired, empty
\* results included.
C38_FuncInvokedAtMostOnce ==
  /\ func_calls <= 1
  /\ g_stored => func_calls = 0

\* the first half alone: at most one invocation per wrapper call
C38_AtMostOnce == func_calls <= 1

\* the second half alone: no invocation after a read that found the key
C38_StoredNotInvoked == g_stored => func_calls = 0

====
